---- MODULE Spec2Model ----
(***************************************************************************)
(* A model of the execution core of the WASM smart-contract VM.            *)
(*                                                                         *)
(* Spec    : the host dispatcher (arwen/host/arwen.go): the read-write     *)
(*           execution lock, Close / Reset / GasScheduleChange, and the    *)
(*           two goroutines of RunSmartContractCall / Create (the waiting  *)
(*           host goroutine and the execution worker).                     *)
(* GasSpec : gas accounting of one top-level call (frames, nested calls,   *)
(*           async calls and callbacks).                                   *)
(* StackSpec : the state stacks of the contexts (PushState, the pops,      *)
(*           ClearContextStateStack) and the frames they save.             *)
(***************************************************************************)
EXTENDS Integers, Sequences, FiniteSets, TLC

(***************************************************************************)
(* Bounds of the model.                                                    *)
(***************************************************************************)
MaxAdminOps == 1      \* Close / Reset / GasScheduleChange calls
MaxBlocks == 1        \* WASM basic blocks a contract executes in one run
NumSchedules == 1     \* distinct gas schedules
MaxGasProvided == 5   \* gas-provided of a top-level call
MaxFrames == 2        \* depth of the frame stack
MaxAsyncCalls == 2    \* async calls a top-level frame registers
MaxTransfers == 1     \* transfers with gas the contracts of a call make
AsyncCallStep == 1    \* ElrondAPICost.AsyncCallStep of the gas schedule
MaxStackDepth == 2    \* depth of the state stacks of the contexts
MaxHookWrites == 2    \* state changes made through the blockchain hook
MaxStorageOps == 2    \* storage reads and writes of a frame
MaxStorageGas == 5    \* gas of the frame that uses the storage
AddressLen == 1       \* length of an address, in bytes
StorePerByte == 2     \* BaseOperationCost of the gas schedule
PersistPerByte == 1
ReleasePerByte == 2
DataCopyPerByte == 1
WordBits == 4         \* width of the int32 / uint32 words of MemLoad, scaled down
MaxMemLen == 3        \* length of the linear memory, in bytes
MaxRuns == 2          \* consecutive top-level runs of a host
ChainDepth == 3       \* async contexts of a chain, the first call included
MaxReturnData == 2    \* byte strings a destination call returns
MaxCallbackGas == 8   \* gas-remaining of a destination call
MaximumWasmerInstanceCount == 10

\* The invocations of RunSmartContractCall / RunSmartContractCreate, each made
\* by a goroutine of its own, and the entry point each of them calls.
Callers == {"c1", "c2"}

Function ==
    [c \in Callers |-> IF c = "c1" THEN "RunSmartContractCall"
                                   ELSE "RunSmartContractCreate"]

VARIABLES
    \* ---- vmHost (arwen.go:38-59) ----
    mutExecution,       \* sync.RWMutex: [readers, writer, waiting]
    closingInstance,    \* bool
    gasSchedule,        \* host.gasSchedule
    meteringSchedule,   \* meteringContext's gas schedule
    opcodeCosts,        \* process-wide wasmer opcode costs
    \* ---- runtime and output contexts, shared by all runs of the host ----
    instance,           \* runtimeContext.instance: "nil" or "live"
    breakpoint,         \* breakpoint value of the instance
    rtErrors,           \* runtimeContext.errors, as the set of recorded errors
    output,             \* outputContext state: returnCode, returnMessage, accounts
    \* ---- one entry per caller goroutine ----
    pc,                 \* position of the host goroutine inside Run...
    wpc,                \* position of the execution worker goroutine
    blocks,             \* basic blocks the worker has executed (gas points used)
    done,               \* the done channel is closed
    errChan,            \* content of the buffered errChan
    vmOutput,           \* the named result vmOutput
    err,                \* the named result err
    result,             \* what the last finished run handed to its caller
    atTimeout,          \* the worker was executing the contract when the host
                        \* took the ctx.Done() branch
    \* ---- the goroutine calling Close / Reset / GasScheduleChange ----
    admin,
    adminOps,
    \* ---- gas accounting of one top-level call (GasSpec) ----
    gasProvided,        \* the gas-provided of the top-level input
    frames,             \* the stack of call frames (runtime and metering state)
    outputAccounts,     \* output accounts: address -> gas-used
    outputTransfers,    \* the outgoing transfers, in order
    asyncCalls,         \* the async calls registered by the top-level frame
    asyncPc,            \* position of the host inside the call and processAsyncContext
    gasVMOutput,        \* the final VM output of the top-level call
    \* ---- the state stacks of the contexts (StackSpec) ----
    stateStack,         \* context name -> its stateStack
    instanceStack,      \* runtimeContext.instanceStack
    runtime,            \* the current frame of the runtime context
    storageAddress,     \* storageContext.address
    blockchainHook,     \* the world behind the hook: [state, journal]
    pushed,             \* what was observable at each PushState not yet popped
    \* ---- the storage context of one frame (StorageSpec) ----
    storageUpdates,     \* address -> key -> the StorageUpdate of the output account
    meter,              \* the gas of the frame
    refund,             \* the output's gas refund
    storageResult,      \* the last storage call and what it returned
    writtenBy,          \* address -> key -> the operation that last changed the value
    storageOps,         \* number of storage calls made
    valueTransfers,     \* the transfers of value the frame has made
    flagUseDifferentGasCostForReadingCachedStorage,
    \* ---- the linear memory of the instance (MemSpec) ----
    memory,             \* the bytes of the memory view
    memLoad,            \* the last MemLoad call and what it returned
    \* ---- the Wasmer instances of the runtime context (InstanceSpec) ----
    instStack,          \* runtimeContext.instanceStack
    instCurrent,        \* runtimeContext.instance
    liveInstances,      \* the instances made and not cleaned
    startResult,        \* the last StartWasmerInstance call and what it returned
    callDepth,          \* nested calls of the run that have not returned
    runs,               \* top-level runs started
    \* ---- the async context of a call and its persisted copy (AsyncSpec) ----
    asyncContext,       \* AsyncCallGroups: group id -> the calls of the group
    registered,         \* the group ids of the calls, in registration order
    originalTxHash,     \* runtime.GetOriginalTxHash() of the call
    returnData,         \* output.ReturnData()
    effects,            \* the nested executions whose output was merged
    executed,           \* the calls executed on this host
    asyncTransfers,     \* the outgoing transfers of the output
    asyncStorage,       \* tx-hash -> the value stored under the async-data key
    asyncErr,           \* what the last processing returned
    asyncPhase,         \* "exec", "processed", "failed"
    callbacksReceived,  \* cross-shard callbacks processed: their callers
    callbackTriggers,   \* times the callback of the original caller was triggered
    \* ---- a chain of async contexts, each the child of the one before (ChainSpec) ----
    chainContexts,      \* position in the chain -> the stored async context
    lastNotify,         \* the contexts the last notification visited, in order
    \* ---- the callback of one locally executed async call (CallbackSpec) ----
    cbCall,             \* the async call: status, callbacks, destination
    cbDestination,      \* the VM output and error of the destination call
    cbResult,           \* what callbackAsync did and returned
    \* ---- the creation of a contract's instance (CompileSpec) ----
    verifyCode,         \* runtimeContext.verifyCode
    codeInstance,       \* runtimeContext.instance: its contract and making
    compiledCode,       \* the code hashes the hook holds compiled code for
    lastStart           \* the last StartWasmerInstance and what it did

hostVars == <<mutExecution, closingInstance, gasSchedule, meteringSchedule,
              opcodeCosts, instance, breakpoint, rtErrors, output, pc, wpc,
              blocks, done, errChan, vmOutput, err, result, atTimeout, admin,
              adminOps>>

gasVars == <<gasProvided, frames, outputAccounts, outputTransfers, asyncCalls,
             asyncPc, gasVMOutput>>

stackVars == <<stateStack, instanceStack, runtime, storageAddress, blockchainHook,
               pushed>>

storageVars == <<storageUpdates, meter, refund, storageResult, writtenBy, storageOps,
                 valueTransfers,
                 flagUseDifferentGasCostForReadingCachedStorage>>

memVars == <<memory, memLoad>>

instVars == <<instStack, instCurrent, liveInstances, startResult, callDepth, runs>>

asyncCtxVars == <<asyncContext, registered, originalTxHash, returnData, effects,
                  executed, asyncTransfers, asyncStorage, asyncErr, asyncPhase,
                  callbacksReceived, callbackTriggers>>

chainVars == <<chainContexts, lastNotify>>

cbVars == <<cbCall, cbDestination, cbResult>>

compileVars == <<verifyCode, codeInstance, compiledCode, lastStart>>

extVars == <<memVars, instVars, asyncCtxVars, chainVars, cbVars, compileVars>>

ctxVars == <<stackVars, storageVars, extVars>>

vars == <<hostVars, gasVars, ctxVars>>

(***************************************************************************)
(* Values.                                                                 *)
(***************************************************************************)
BreakpointNone == "BreakpointNone"
BreakpointSignalError == "BreakpointSignalError"
BreakpointOutOfGas == "BreakpointOutOfGas"
BreakpointExecutionFailed == "BreakpointExecutionFailed"

ErrNotEnoughGas == "not enough gas"
ErrExecutionFailedWithTimeout == "execution failed with timeout"
ErrExecutionPanicked == "VM execution panicked"
ErrVMIsClosing == "vm is closing"
NoError == "nil"

RunGas == MaxBlocks + 1   \* gas provided with every run; a block costs 1

NilOutput ==
    [isNil |-> TRUE, returnCode |-> "", returnMessage |-> "",
     gasRemaining |-> 0, accounts |-> 0]

NoResult == [how |-> "none", out |-> NilOutput, err |-> NoError, atTimeout |-> FALSE]

OutputInit == [returnCode |-> "Ok", returnMessage |-> "", accounts |-> 0]

\* A gas schedule map handed to GasScheduleChange; CreateGasConfig rejects a
\* map that is not well formed (a missing or invalid section).
GasScheduleMaps == [id : 1..NumSchedules, wellFormed : BOOLEAN]

\* The schedule the host was constructed with.
NoSchedule == [id |-> 0, wellFormed |-> TRUE]

CreateGasConfig(m) == [ok |-> m.wellFormed, cfg |-> m.id]

(***************************************************************************)
(* sync.RWMutex                                                            *)
(***************************************************************************)
RLockIgnoringWriter == TRUE

\* RLock() returns only while no writer holds the lock or waits for it.
RLockEnabled == ~mutExecution.writer /\ ~mutExecution.waiting

\* Lock() returns once no reader and no writer holds the lock.
LockEnabled == mutExecution.readers = 0 /\ ~mutExecution.writer

RUnlocked == [mutExecution EXCEPT !.readers = @ - 1]

(***************************************************************************)
(* runtimeContext.FailExecution (part_005:1345-1372)                       *)
(***************************************************************************)
FailExecutionBreakpointNone(e) == BreakpointNone

FailExecutionBreakpoint(e) ==
    IF e = ErrNotEnoughGas THEN BreakpointOutOfGas ELSE BreakpointExecutionFailed

FailExecutionMessage(e) == IF e # NoError THEN e ELSE "execution failed"

\* Output().SetReturnCode(ExecutionFailed); AddError; Output().SetReturnMessage;
\* the breakpoint is set only on a non-nil instance.
FailExecution(e) ==
    /\ output' = [output EXCEPT !.returnCode = "ExecutionFailed",
                                !.returnMessage = FailExecutionMessage(e)]
    /\ rtErrors' = rtErrors \cup {FailExecutionMessage(e)}
    /\ breakpoint' = IF instance # "nil" THEN FailExecutionBreakpoint(e) ELSE breakpoint

(***************************************************************************)
(* Close, Reset and GasScheduleChange (arwen.go:278-345)                   *)
(***************************************************************************)
AdminOpNames == {"Close", "Reset", "GasScheduleChange"}

\* runtimeContext.ClearWarmInstanceCache (part_005:932-936): the active
\* instance is cleaned and dropped.
ClearWarmInstanceCache ==
    /\ instance' = "nil"
    /\ breakpoint' = BreakpointNone

\* Close / Reset / GasScheduleChange is called: mutExecution.Lock() starts to
\* wait, and from now on no new reader is admitted.
AdminCall(op) ==
    /\ admin.pc = "idle"
    /\ adminOps < MaxAdminOps
    /\ admin' = [pc |-> "waitLock", op |-> op]
    /\ adminOps' = adminOps + 1
    /\ mutExecution' = [mutExecution EXCEPT !.waiting = TRUE]
    /\ UNCHANGED <<closingInstance, gasSchedule, meteringSchedule, opcodeCosts,
                   instance, breakpoint, rtErrors, output, pc, wpc, blocks,
                   done, errChan, vmOutput, err, result, atTimeout>>
    /\ UNCHANGED <<gasVars, ctxVars>>

\* mutExecution.Lock() returns.
AdminLock ==
    /\ admin.pc = "waitLock"
    /\ LockEnabled
    /\ mutExecution' = [mutExecution EXCEPT !.writer = TRUE, !.waiting = FALSE]
    /\ admin' = [admin EXCEPT !.pc = "body"]
    /\ UNCHANGED <<closingInstance, gasSchedule, meteringSchedule, opcodeCosts,
                   instance, breakpoint, rtErrors, output, pc, wpc, blocks,
                   done, errChan, vmOutput, err, result, atTimeout, adminOps>>
    /\ UNCHANGED <<gasVars, ctxVars>>

AdminReturn ==
    /\ admin' = [pc |-> "idle", op |-> "none"]
    /\ mutExecution' = [mutExecution EXCEPT !.writer = FALSE]

\* Close(): close(); closingInstance = true; Unlock().
Close ==
    /\ admin.pc = "body" /\ admin.op = "Close"
    /\ ClearWarmInstanceCache
    /\ closingInstance' = TRUE
    /\ AdminReturn
    /\ UNCHANGED <<gasSchedule, meteringSchedule, opcodeCosts, rtErrors, output,
                   pc, wpc, blocks, done, errChan, vmOutput, err, result,
                   atTimeout, adminOps>>
    /\ UNCHANGED <<gasVars, ctxVars>>

\* Reset(): close(); "keep closingInstance flag to false"; Unlock().
Reset ==
    /\ admin.pc = "body" /\ admin.op = "Reset"
    /\ ClearWarmInstanceCache
    /\ AdminReturn
    /\ UNCHANGED <<closingInstance, gasSchedule, meteringSchedule, opcodeCosts, rtErrors, output,
                   pc, wpc, blocks, done, errChan, vmOutput, err, result,
                   atTimeout, adminOps>>
    /\ UNCHANGED <<gasVars, ctxVars>>

\* GasScheduleChange(newGasSchedule): the host's schedule is stored first; when
\* CreateGasConfig fails the function returns with nothing else changed.
GasScheduleChange(newGasSchedule) ==
    /\ admin.pc = "body" /\ admin.op = "GasScheduleChange"
    /\ gasSchedule' = newGasSchedule
    /\ IF CreateGasConfig(newGasSchedule).ok
          THEN /\ opcodeCosts' = CreateGasConfig(newGasSchedule).cfg
               /\ meteringSchedule' = newGasSchedule
               /\ ClearWarmInstanceCache
          ELSE UNCHANGED <<opcodeCosts, meteringSchedule, instance, breakpoint>>
    /\ AdminReturn
    /\ UNCHANGED <<closingInstance, rtErrors, output, pc, wpc, blocks, done,
                   errChan, vmOutput, err, result, atTimeout, adminOps>>
    /\ UNCHANGED <<gasVars, ctxVars>>

(***************************************************************************)
(* RunSmartContractCall / RunSmartContractCreate: the host goroutine       *)
(* (arwen.go:353-410 and 413-487; the two bodies differ only in the inner  *)
(* executor the worker calls)                                              *)
(***************************************************************************)
configVars == <<closingInstance, gasSchedule, meteringSchedule, opcodeCosts>>
adminVars == <<admin, adminOps>>
contextVars == <<instance, breakpoint, rtErrors, output>>

HoldsRLock(c) == pc[c] \in {"locked", "select", "fail", "waitDone"}

\* The states in which the worker goroutine of c exists and still executes code
\* that reads and writes the contexts.
WorkerActive == {"start", "exec"}

NeverRefuses == FALSE

\* "if host.closingInstance { return nil, arwen.ErrVMIsClosing }"
RefusesRun == closingInstance

\* host.mutExecution.RLock() returns in Run...(input).
RunEnter(c) ==
    /\ pc[c] = "idle"
    /\ RLockEnabled
    /\ mutExecution' = [mutExecution EXCEPT !.readers = @ + 1]
    /\ pc' = [pc EXCEPT ![c] = "locked"]
    /\ UNCHANGED <<configVars, contextVars, adminVars, wpc, blocks, done,
                   errChan, vmOutput, err, result, atTimeout>>
    /\ UNCHANGED <<gasVars, ctxVars>>

RunSmartContractCall(c) == Function[c] = "RunSmartContractCall" /\ RunEnter(c)

RunSmartContractCreate(c) == Function[c] = "RunSmartContractCreate" /\ RunEnter(c)

\* The run hands (out, e) or a panic to its caller; the deferred cancel() and
\* RUnlock() have run.  The per-run channels and named results go out of scope.
RunLeaves(c, how, out, e) ==
    /\ result' = [result EXCEPT ![c] =
                    [how |-> how, out |-> out, err |-> e, atTimeout |-> atTimeout[c]]]
    /\ mutExecution' = RUnlocked
    /\ pc' = [pc EXCEPT ![c] = "left"]
    /\ wpc' = [wpc EXCEPT ![c] = "none"]
    /\ blocks' = [blocks EXCEPT ![c] = 0]
    /\ done' = [done EXCEPT ![c] = FALSE]
    /\ errChan' = [errChan EXCEPT ![c] = NoError]
    /\ vmOutput' = [vmOutput EXCEPT ![c] = NilOutput]
    /\ err' = [err EXCEPT ![c] = NoError]
    /\ atTimeout' = [atTimeout EXCEPT ![c] = FALSE]

\* The closing check fails: return nil, ErrVMIsClosing.
RunRefused(c) ==
    /\ pc[c] = "locked"
    /\ RefusesRun
    /\ RunLeaves(c, "returned", NilOutput, ErrVMIsClosing)
    /\ UNCHANGED <<configVars, contextVars, adminVars>>
    /\ UNCHANGED <<gasVars, ctxVars>>

\* The closing check passes: the context with the deadline, the channels and
\* the worker goroutine are created; the host goroutine reaches the select.
RunStartWorker(c) ==
    /\ pc[c] = "locked"
    /\ ~RefusesRun
    /\ pc' = [pc EXCEPT ![c] = "select"]
    /\ wpc' = [wpc EXCEPT ![c] = "start"]
    /\ UNCHANGED <<mutExecution, configVars, contextVars, adminVars, blocks,
                   done, errChan, vmOutput, err, result, atTimeout>>
    /\ UNCHANGED <<gasVars, ctxVars>>

\* case <-done: normal termination.
RunSelectDone(c) ==
    /\ pc[c] = "select"
    /\ done[c]
    /\ RunLeaves(c, "returned", vmOutput[c], err[c])
    /\ UNCHANGED <<configVars, contextVars, adminVars>>
    /\ UNCHANGED <<gasVars, ctxVars>>

\* case <-ctx.Done(): the deadline has elapsed; err = ErrExecutionFailedWithTimeout.
RunSelectTimeout(c) ==
    /\ pc[c] = "select"
    /\ err' = [err EXCEPT ![c] = ErrExecutionFailedWithTimeout]
    /\ atTimeout' = [atTimeout EXCEPT ![c] = (wpc[c] = "exec")]
    /\ pc' = [pc EXCEPT ![c] = "fail"]
    /\ UNCHANGED <<mutExecution, configVars, contextVars, adminVars, wpc,
                   blocks, done, errChan, vmOutput, result>>
    /\ UNCHANGED <<gasVars, ctxVars>>

\* case err = <-errChan: the worker has panicked.
RunSelectPanic(c) ==
    /\ pc[c] = "select"
    /\ errChan[c] # NoError
    /\ err' = [err EXCEPT ![c] = errChan[c]]
    /\ errChan' = [errChan EXCEPT ![c] = NoError]
    /\ pc' = [pc EXCEPT ![c] = "fail"]
    /\ UNCHANGED <<mutExecution, configVars, contextVars, adminVars, wpc,
                   blocks, done, vmOutput, result, atTimeout>>
    /\ UNCHANGED <<gasVars, ctxVars>>

\* Timeout path: host.Runtime().FailExecution(err), then the host goroutine
\* blocks in "<-done".
RunFailTimeout(c) ==
    /\ pc[c] = "fail"
    /\ err[c] = ErrExecutionFailedWithTimeout
    /\ FailExecution(err[c])
    /\ pc' = [pc EXCEPT ![c] = "waitDone"]
    /\ UNCHANGED <<mutExecution, configVars, instance, adminVars, wpc, blocks,
                   done, errChan, vmOutput, err, result, atTimeout>>
    /\ UNCHANGED <<gasVars, ctxVars>>

\* "<-done" on the timeout path blocks until the worker has closed done.
AwaitDone(c) == done[c]

RunAwaitDone(c) ==
    /\ pc[c] = "waitDone"
    /\ AwaitDone(c)
    /\ RunLeaves(c, "returned", vmOutput[c], err[c])
    /\ UNCHANGED <<configVars, contextVars, adminVars>>
    /\ UNCHANGED <<gasVars, ctxVars>>

\* Panic path: host.Runtime().FailExecution(err); panic(err).  The panic leaves
\* Run... through the deferred calls.
RunFailPanic(c) ==
    /\ pc[c] = "fail"
    /\ err[c] # ErrExecutionFailedWithTimeout
    /\ FailExecution(err[c])
    /\ RunLeaves(c, "panic", NilOutput, err[c])
    /\ UNCHANGED <<configVars, instance, adminVars>>
    /\ UNCHANGED <<gasVars, ctxVars>>

(***************************************************************************)
(* The execution worker: the goroutine started by Run... (arwen.go:432-463) *)
(***************************************************************************)
workerFrame == <<mutExecution, configVars, adminVars, pc, err, result,
                 atTimeout>>

\* host.InitState() -> initContexts (arwen.go:300-310) resets the output
\* context and the runtime's frame state and error chain; then
\* runtimeContext.StartWasmerInstance (part_005:945-961) makes a fresh instance,
\* with no breakpoint set, the active one, and the contract function is called.
WorkerStart(c) ==
    /\ wpc[c] = "start"
    /\ output' = OutputInit
    /\ rtErrors' = {}
    /\ instance' = "live"
    /\ breakpoint' = BreakpointNone
    /\ wpc' = [wpc EXCEPT ![c] = "exec"]
    /\ UNCHANGED <<workerFrame, blocks, done, errChan, vmOutput>>
    /\ UNCHANGED <<gasVars, ctxVars>>

\* The contract executes one basic block; the EEI calls of the block use gas
\* and change an output account.
WorkerExecBlock(c) ==
    /\ wpc[c] = "exec"
    /\ breakpoint = BreakpointNone
    /\ blocks[c] < MaxBlocks
    /\ blocks' = [blocks EXCEPT ![c] = @ + 1]
    /\ output' = [output EXCEPT !.accounts = 1]
    /\ UNCHANGED <<workerFrame, instance, breakpoint, rtErrors, wpc, done, errChan,
                   vmOutput>>
    /\ UNCHANGED <<gasVars, ctxVars>>

\* The contract calls the signalError EEI function:
\* runtimeContext.SignalUserError (part_005:1376-1382).
SignalUserError ==
    /\ output' = [output EXCEPT !.returnCode = "UserError",
                                !.returnMessage = "user error"]
    /\ breakpoint' = BreakpointSignalError
    /\ rtErrors' = rtErrors \cup {"user error"}

WorkerSignalUserError(c) ==
    /\ wpc[c] = "exec"
    /\ SignalUserError
    /\ UNCHANGED <<workerFrame, instance, wpc, blocks, done, errChan, vmOutput>>
    /\ UNCHANGED <<gasVars, ctxVars>>

\* The canonical failed output: code and message of the output context, no gas
\* left and no account.
FailedOutput ==
    [isNil |-> FALSE, returnCode |-> output.returnCode,
     returnMessage |-> output.returnMessage, gasRemaining |-> 0, accounts |-> 0]

\* The output of a run that was not stopped: the output context as it is.
SuccessOutput(c) ==
    [isNil |-> FALSE, returnCode |-> output.returnCode,
     returnMessage |-> output.returnMessage, gasRemaining |-> RunGas - blocks[c],
     accounts |-> output.accounts]

\* The engine reaches a block boundary.  With a breakpoint set it stops and the
\* inner executor returns the failed output; otherwise the function has
\* returned and the inner executor returns the output context's output:
\* vmOutput = host.doRunSmartContractCall(input) (or ...Create, Upgrade, Delete).
\* Then the log entry and the traces are written and close(done) ends the
\* goroutine.
WorkerCloseDone(c) ==
    /\ wpc[c] = "exec"
    /\ vmOutput' = [vmOutput EXCEPT ![c] =
                      IF breakpoint # BreakpointNone THEN FailedOutput
                                                     ELSE SuccessOutput(c)]
    /\ done' = [done EXCEPT ![c] = TRUE]
    /\ wpc' = [wpc EXCEPT ![c] = "closed"]
    /\ UNCHANGED <<workerFrame, contextVars, blocks, errChan>>
    /\ UNCHANGED <<gasVars, ctxVars>>

\* A panic in the VM, the EEI or a blockchain hook: the deferred recover()
\* sends the wrapped error to errChan and the goroutine ends; close(done) is
\* never reached.
WorkerPanic(c) ==
    /\ wpc[c] \in WorkerActive
    /\ errChan' = [errChan EXCEPT ![c] = ErrExecutionPanicked]
    /\ wpc' = [wpc EXCEPT ![c] = "panicked"]
    /\ UNCHANGED <<workerFrame, contextVars, blocks, done, vmOutput>>
    /\ UNCHANGED <<gasVars, ctxVars>>

(***************************************************************************)
(* The host specification.                                                 *)
(***************************************************************************)
\* The steps of the host goroutine of invocation c.
HostStep(c) ==
    \/ RunSmartContractCall(c)
    \/ RunSmartContractCreate(c)
    \/ RunRefused(c)
    \/ RunStartWorker(c)
    \/ RunSelectDone(c)
    \/ RunSelectTimeout(c)
    \/ RunSelectPanic(c)
    \/ RunFailTimeout(c)
    \/ RunAwaitDone(c)
    \/ RunFailPanic(c)

\* The steps of the worker goroutine of invocation c.
WorkerStep(c) ==
    \/ WorkerStart(c)
    \/ WorkerExecBlock(c)
    \/ WorkerSignalUserError(c)
    \/ WorkerCloseDone(c)
    \/ WorkerPanic(c)

HostInit ==
    /\ mutExecution = [readers |-> 0, writer |-> FALSE, waiting |-> FALSE]
    /\ closingInstance = FALSE
    /\ gasSchedule = NoSchedule
    /\ meteringSchedule = NoSchedule
    /\ opcodeCosts = CreateGasConfig(NoSchedule).cfg
    /\ instance = "nil"
    /\ breakpoint = BreakpointNone
    /\ rtErrors = {}
    /\ output = OutputInit
    /\ pc = [c \in Callers |-> "idle"]
    /\ wpc = [c \in Callers |-> "none"]
    /\ blocks = [c \in Callers |-> 0]
    /\ done = [c \in Callers |-> FALSE]
    /\ errChan = [c \in Callers |-> NoError]
    /\ vmOutput = [c \in Callers |-> NilOutput]
    /\ err = [c \in Callers |-> NoError]
    /\ result = [c \in Callers |-> NoResult]
    /\ atTimeout = [c \in Callers |-> FALSE]
    /\ admin = [pc |-> "idle", op |-> "none"]
    /\ adminOps = 0

HostNext ==
    \/ \E op \in AdminOpNames : AdminCall(op)
    \/ AdminLock
    \/ Close
    \/ Reset
    \/ \E newGasSchedule \in GasScheduleMaps : GasScheduleChange(newGasSchedule)
    \/ \E c \in Callers : HostStep(c) \/ WorkerStep(c)

(***************************************************************************)
(* Gas accounting of one top-level call.                                   *)
(*                                                                         *)
(* The metering and output contexts are modelled from their specification  *)
(* (metering operations, state stacking, the outgoing transfer) and from   *)
(* the call protocol the metering tests spell out (blockchain.go:643-765); *)
(* the async gas set-up and the inputs of the destination call and of the  *)
(* callback are those of the host's async code (part_001).                 *)
(***************************************************************************)
Accounts == {"parent", "child"}

ErrInputAndOutputGasDoesNotMatch == "input and output gas does not match"

NoAccounts == [a \in Accounts |-> 0]

NoVMOutput ==
    [returnCode |-> "none", gasRemaining |-> 0, accounts |-> NoAccounts,
     transfers |-> <<>>]

RECURSIVE SumGasUsedOver(_, _)
SumGasUsedOver(acc, as) ==
    IF as = {} THEN 0
    ELSE LET a == CHOOSE x \in as : TRUE
         IN acc[a] + SumGasUsedOver(acc, as \ {a})

\* Sum of gas-used over the output accounts.
SumGasUsed(acc) == SumGasUsedOver(acc, Accounts)

RECURSIVE SumTransfers(_)
\* Sum of gas-limit + gas-locked over the outgoing transfers.
SumTransfers(ts) ==
    IF ts = <<>> THEN 0
    ELSE Head(ts).gasLimit + Head(ts).gasLocked + SumTransfers(Tail(ts))

\* A frame: the runtime's VM input (address, call type, its clone of
\* gas-provided), the metering state (gas provided, points used) and the
\* snapshot of the output state taken when the frame was pushed.
NewFrame(addr, callType, gas) ==
    [addr |-> addr, callType |-> callType, gasProvided |-> gas,
     vmInputGas |-> gas, pointsUsed |-> 0, savedAccounts |-> outputAccounts,
     savedTransfers |-> outputTransfers]

TopFrame == frames[Len(frames)]

\* gas-left = gas-for-execution - points-used (code costs are zero).
GasLeft(f) == IF f.gasProvided < f.pointsUsed THEN 0 ELSE f.gasProvided - f.pointsUsed

\* use-gas(n): increases the used-points counter.
UseGas(f, n) == [f EXCEPT !.pointsUsed = @ + n]

\* restore-gas(n): undoes a prior use-gas.
RestoreGas(f, n) == [f EXCEPT !.pointsUsed = IF @ < n THEN 0 ELSE @ - n]

GasSpentByContract(f) == f.gasProvided - GasLeft(f)

\* Gas already ascribed, since the frame was pushed, to output accounts and to
\* outgoing transfers.
GasAccountedDuring(f) ==
    (SumGasUsed(outputAccounts) - SumGasUsed(f.savedAccounts))
        + (SumTransfers(outputTransfers) - SumTransfers(f.savedTransfers))

GasUsedIgnoringOthers(f) == GasSpentByContract(f)

\* update-gas-state-on-success: the gas-used of the frame's account is what the
\* frame spent less what is ascribed to other accounts and to transfers.
GasUsedByCurrentSC(f) == GasSpentByContract(f) - GasAccountedDuring(f)

\* The check of update-gas-state-on-success that raises
\* ErrInputAndOutputGasDoesNotMatch.
GasDoesNotMatch(f) == GasAccountedDuring(f) > GasSpentByContract(f)

UpdateGasStateOnSuccess(f) ==
    [outputAccounts EXCEPT ![f.addr] = @ + GasUsedByCurrentSC(f)]

\* update-gas-state-on-failure: the whole gas-provided of the frame becomes the
\* gas-used of the callee account; the effects of the frame are dropped.
UpdateGasStateOnFailure(f) ==
    [f.savedAccounts EXCEPT ![f.addr] = @ + f.gasProvided]

\* The frame below the top one takes over again, with n gas restored to it.
PopFrame(n) ==
    LET below == frames[Len(frames) - 1]
    IN [SubSeq(frames, 1, Len(frames) - 1) EXCEPT ![Len(frames) - 1] = RestoreGas(below, n)]

\* The top-level frame ends with success: the VM output of the call.
FinishOk(f, accs, ts) ==
    /\ gasVMOutput' = [returnCode |-> "Ok", gasRemaining |-> GasLeft(f),
                       accounts |-> accs, transfers |-> ts]
    /\ outputAccounts' = accs
    /\ outputTransfers' = ts
    /\ frames' = <<f>>
    /\ asyncPc' = "done"

\* The top-level frame ends with a failure: the failed VM output.
FinishFailed(f, code) ==
    /\ gasVMOutput' = [returnCode |-> code, gasRemaining |-> 0,
                       accounts |-> UpdateGasStateOnFailure(f), transfers |-> <<>>]
    /\ outputAccounts' = UpdateGasStateOnFailure(f)
    /\ outputTransfers' = <<>>
    /\ frames' = <<f>>
    /\ asyncPc' = "done"

\* The end of a successful top-level frame: update-gas-state-on-success and its
\* check, then the VM output.
FinishTopFrame(f, ts) ==
    IF (SumGasUsed(outputAccounts) - SumGasUsed(f.savedAccounts))
           + (SumTransfers(ts) - SumTransfers(f.savedTransfers)) > GasSpentByContract(f)
    THEN FinishFailed(f, ErrInputAndOutputGasDoesNotMatch)
    ELSE FinishOk(f,
                  [outputAccounts EXCEPT ![f.addr] =
                      @ + GasUsedByCurrentSC(f)
                        - (SumTransfers(ts) - SumTransfers(outputTransfers))],
                  ts)

(***************************************************************************)
(* The contract code of the top frame.                                     *)
(***************************************************************************)
\* The contract uses n gas (metering.UseGas through an EEI function).
ContractUseGas(n) ==
    /\ asyncPc = "exec"
    /\ n <= GasLeft(TopFrame)
    /\ frames' = [frames EXCEPT ![Len(frames)] = UseGas(@, n)]
    /\ UNCHANGED <<gasProvided, outputAccounts, outputTransfers, asyncCalls,
                   asyncPc, gasVMOutput, hostVars, ctxVars>>

\* The nested call of the metering tests: the caller uses the gas it provides,
\* the states are pushed and the callee's state is initialised from its input.
PushCall(addr, callType, g) ==
    frames' = Append([frames EXCEPT ![Len(frames)] = UseGas(@, g)],
                     NewFrame(addr, callType, g))

ExecuteOnDestContext(addr, g) ==
    /\ asyncPc = "exec"
    /\ Len(frames) < MaxFrames
    /\ g <= GasLeft(TopFrame)
    /\ PushCall(addr, "direct", g)
    /\ UNCHANGED <<gasProvided, outputAccounts, outputTransfers, asyncCalls,
                   asyncPc, gasVMOutput, hostVars, ctxVars>>

\* The same protocol serves a call on the caller's context: the callee's code
\* is metered in a frame of its own and its account gets its gas-used.
ExecuteOnSameContext(addr, g) ==
    /\ asyncPc = "exec"
    /\ Len(frames) < MaxFrames
    /\ g <= GasLeft(TopFrame)
    /\ PushCall(addr, "direct", g)
    /\ UNCHANGED <<gasProvided, outputAccounts, outputTransfers, asyncCalls,
                   asyncPc, gasVMOutput, hostVars, ctxVars>>

\* output.Transfer with a gas limit (transfer-and-execute to another shard):
\* the gas limit leaves the frame and an outgoing transfer is appended.
Transfer(gasLimit, gasLocked) ==
    Append(outputTransfers, [gasLimit |-> gasLimit, gasLocked |-> gasLocked])

TransferValueExecute(g) ==
    /\ asyncPc = "exec"
    /\ Len(outputTransfers) < MaxTransfers
    /\ g <= GasLeft(TopFrame)
    /\ frames' = [frames EXCEPT ![Len(frames)] = UseGas(@, g)]
    /\ outputTransfers' = Transfer(g, 0)
    /\ UNCHANGED <<gasProvided, outputAccounts, asyncCalls, asyncPc, gasVMOutput,
                   hostVars, ctxVars>>

\* The top-level contract registers an async call: the gas it locks for the
\* callback is used at once; ProvidedGas 0 asks for a share of the gas left.
RegisterAsyncCall(providedGas, remote, gasLocked) ==
    /\ asyncPc = "exec"
    /\ Len(frames) = 1
    /\ Len(asyncCalls) < MaxAsyncCalls
    /\ gasLocked <= GasLeft(TopFrame)
    /\ gasLocked = (IF remote THEN AsyncCallStep ELSE 0)
    /\ frames' = [frames EXCEPT ![1] = UseGas(@, gasLocked)]
    /\ asyncCalls' = Append(asyncCalls,
                            [ProvidedGas |-> providedGas, GasLimit |-> 0,
                             GasLocked |-> gasLocked, remote |-> remote,
                             Status |-> "pending", Callback |-> "none"])
    /\ UNCHANGED <<gasProvided, outputAccounts, outputTransfers, asyncPc,
                   gasVMOutput, hostVars, ctxVars>>

\* A nested synchronous call returns.  On success its account gets its gas-used,
\* the states are merged and the caller gets the callee's gas-left back; on
\* failure the callee's output state is dropped and no gas comes back.
NestedCallReturns(ok) ==
    /\ asyncPc = "exec"
    /\ Len(frames) > 1
    /\ TopFrame.callType = "direct"
    /\ IF ok /\ ~GasDoesNotMatch(TopFrame)
          THEN /\ outputAccounts' = UpdateGasStateOnSuccess(TopFrame)
               /\ frames' = PopFrame(GasLeft(TopFrame))
               /\ UNCHANGED outputTransfers
          ELSE /\ outputAccounts' = TopFrame.savedAccounts
               /\ outputTransfers' = TopFrame.savedTransfers
               /\ frames' = PopFrame(0)
    /\ UNCHANGED <<gasProvided, asyncCalls, asyncPc, gasVMOutput, hostVars, ctxVars>>

\* The function of the top-level frame returns: without async calls the call
\* ends, otherwise the host processes the async context.
TopFrameReturns ==
    /\ asyncPc = "exec"
    /\ Len(frames) = 1
    /\ IF asyncCalls = <<>>
          THEN FinishTopFrame(TopFrame, outputTransfers)
          ELSE /\ asyncPc' = "setup"
               /\ UNCHANGED <<frames, outputAccounts, outputTransfers, gasVMOutput>>
    /\ UNCHANGED <<gasProvided, asyncCalls, hostVars, ctxVars>>

\* The top-level frame fails (a signalled error, out of gas, a failed execution).
TopFrameFails(code) ==
    /\ asyncPc = "exec"
    /\ Len(frames) = 1
    /\ FinishFailed(TopFrame, code)
    /\ UNCHANGED <<gasProvided, asyncCalls, hostVars, ctxVars>>

(***************************************************************************)
(* processAsyncContext and its callees (part_001:154-254, 284-383, 567-611) *)
(***************************************************************************)
RECURSIVE SumProvidedGas(_)
SumProvidedGas(calls) ==
    IF calls = <<>> THEN 0 ELSE Head(calls).ProvidedGas + SumProvidedGas(Tail(calls))

CallsWithZeroGas(calls) == Cardinality({i \in DOMAIN calls : calls[i].ProvidedGas = 0})

setupAsyncCallsGasUnchecked(calls, gasLeft) ==
    [err |-> NoError,
     calls |-> [i \in DOMAIN calls |->
                  [calls[i] EXCEPT !.GasLimit = calls[i].ProvidedGas]]]

\* The share is taken from the whole gas left.
setupAsyncCallsGasShareOfAll(calls, gasLeft) ==
    LET gasNeeded == SumProvidedGas(calls)
        zero == CallsWithZeroGas(calls)
    IN IF gasNeeded > gasLeft \/ (zero # 0 /\ gasLeft <= gasNeeded)
       THEN [err |-> ErrNotEnoughGas, calls |-> calls]
       ELSE [err |-> NoError,
             calls |-> [i \in DOMAIN calls |->
                          [calls[i] EXCEPT !.GasLimit =
                              IF calls[i].ProvidedGas = 0
                              THEN gasLeft \div zero
                              ELSE calls[i].ProvidedGas]]]

\* Every call without gas of its own gets all that is left over.
setupAsyncCallsGasWholeShare(calls, gasLeft) ==
    LET gasNeeded == SumProvidedGas(calls)
        zero == CallsWithZeroGas(calls)
    IN IF gasNeeded > gasLeft \/ (zero # 0 /\ gasLeft <= gasNeeded)
       THEN [err |-> ErrNotEnoughGas, calls |-> calls]
       ELSE [err |-> NoError,
             calls |-> [i \in DOMAIN calls |->
                          [calls[i] EXCEPT !.GasLimit =
                              IF calls[i].ProvidedGas = 0
                              THEN gasLeft - gasNeeded
                              ELSE calls[i].ProvidedGas]]]

\* setupAsyncCallsGas: the gas limits of the calls, or ErrNotEnoughGas.  The
\* running sum gasNeeded exceeds gasLeft at some call exactly when the whole
\* sum does.
setupAsyncCallsGas(calls, gasLeft) ==
    LET gasNeeded == SumProvidedGas(calls)
        zero == CallsWithZeroGas(calls)
    IN IF gasNeeded > gasLeft THEN [err |-> ErrNotEnoughGas, calls |-> calls]
       ELSE IF zero = 0
            THEN [err |-> NoError,
                  calls |-> [i \in DOMAIN calls |->
                                [calls[i] EXCEPT !.GasLimit = calls[i].ProvidedGas]]]
       ELSE IF gasLeft <= gasNeeded THEN [err |-> ErrNotEnoughGas, calls |-> calls]
       ELSE [err |-> NoError,
             calls |-> [i \in DOMAIN calls |->
                          [calls[i] EXCEPT !.GasLimit =
                              IF calls[i].ProvidedGas = 0
                              THEN (gasLeft - gasNeeded) \div zero
                              ELSE calls[i].ProvidedGas]]]

\* createDestinationContractCallInput: the gas of the destination call.
createDestinationContractCallInput(gasLimit) ==
    IF gasLimit <= AsyncCallStep
    THEN [err |-> ErrNotEnoughGas, GasProvided |-> 0]
    ELSE [err |-> NoError, GasProvided |-> gasLimit - AsyncCallStep]

\* createCallbackContractCallInput: the gas of the callback, from the
\* gas-remaining of the destination call, under the gas schedule of the
\* metering tests, whose DataCopyPerByte is 0 (execution_gas_test.go:1696).
createCallbackContractCallInput(gasRemaining) ==
    IF gasRemaining <= AsyncCallStep
    THEN [err |-> ErrNotEnoughGas, GasProvided |-> 0]
    ELSE [err |-> NoError, GasProvided |-> gasRemaining - AsyncCallStep]

IsLocalPending(call) == call.Status = "pending" /\ ~call.remote

IsPending(call) == call.Status = "pending"

\* The async call being executed on this host: the first local pending one.
CurrentAsyncCall ==
    CHOOSE i \in DOMAIN asyncCalls :
        /\ IsLocalPending(asyncCalls[i])
        /\ \A j \in 1..(i - 1) : ~IsLocalPending(asyncCalls[j])

\* processAsyncContext, up to its first local call: the gas set-up.
ProcessAsyncContext ==
    /\ asyncPc = "setup"
    /\ LET r == setupAsyncCallsGas(asyncCalls, GasLeft(TopFrame))
       IN IF r.err # NoError
             THEN /\ FinishFailed(TopFrame, r.err)
                  /\ UNCHANGED asyncCalls
             ELSE /\ asyncCalls' = r.calls
                  /\ asyncPc' = "local"
                  /\ UNCHANGED <<frames, outputAccounts, outputTransfers, gasVMOutput>>
    /\ UNCHANGED <<gasProvided, hostVars, ctxVars>>

\* processAsyncCall: the destination contract is called on this host.  The
\* error of createDestinationContractCallInput is dropped, so that a gas limit
\* of at most AsyncCallStep hands a nil input to ExecuteOnDestContext.
ProcessAsyncCall ==
    /\ asyncPc = "local"
    /\ \E i \in DOMAIN asyncCalls : IsLocalPending(asyncCalls[i])
    /\ LET input == createDestinationContractCallInput(asyncCalls[CurrentAsyncCall].GasLimit)
       IN IF input.err # NoError
             THEN /\ asyncPc' = "panicked"
                  /\ UNCHANGED frames
             ELSE /\ PushCall("child", "asyncCall", input.GasProvided)
                  /\ asyncPc' = "exec"
    /\ UNCHANGED <<gasProvided, outputAccounts, outputTransfers, asyncCalls,
                   gasVMOutput, hostVars, ctxVars>>

\* The destination call returns and callbackAsync builds the callback input
\* from its VM output; without enough gas for the callback the error ends
\* processAsyncContext and the top-level frame fails.
AsyncDestinationReturns(ok) ==
    /\ asyncPc = "exec"
    /\ Len(frames) > 1
    /\ TopFrame.callType = "asyncCall"
    /\ LET success == ok /\ ~GasDoesNotMatch(TopFrame)
           gasRemaining == IF success THEN GasLeft(TopFrame) ELSE 0
           accs == IF success THEN UpdateGasStateOnSuccess(TopFrame)
                              ELSE TopFrame.savedAccounts
           ts == IF success THEN outputTransfers ELSE TopFrame.savedTransfers
           popped == PopFrame(gasRemaining)
           input == createCallbackContractCallInput(gasRemaining)
       IN /\ asyncCalls' = [asyncCalls EXCEPT
                              ![CurrentAsyncCall].Status =
                                  IF success THEN "resolved" ELSE "rejected",
                              ![CurrentAsyncCall].Callback =
                                  IF input.err # NoError THEN "none"
                                  ELSE IF success THEN "SuccessCallback"
                                  ELSE "ErrorCallback"]
          /\ IF input.err # NoError
                THEN /\ gasVMOutput' =
                          [returnCode |-> input.err, gasRemaining |-> 0,
                           accounts |-> [NoAccounts EXCEPT !["parent"] = gasProvided],
                           transfers |-> <<>>]
                     /\ outputAccounts' = [NoAccounts EXCEPT !["parent"] = gasProvided]
                     /\ outputTransfers' = <<>>
                     /\ frames' = popped
                     /\ asyncPc' = "done"
                ELSE /\ outputAccounts' = accs
                     /\ outputTransfers' = ts
                     /\ frames' = Append([popped EXCEPT ![1] = UseGas(@, input.GasProvided)],
                                         [addr |-> "parent", callType |-> "callback",
                                          gasProvided |-> input.GasProvided,
                                          vmInputGas |-> input.GasProvided,
                                          pointsUsed |-> 0, savedAccounts |-> accs,
                                          savedTransfers |-> ts])
                     /\ asyncPc' = "exec"
                     /\ UNCHANGED gasVMOutput
    /\ UNCHANGED <<gasProvided, hostVars, ctxVars>>

\* The callback returns; processCallbackVMOutput sets the gas-provided of the
\* current VM input to 0 when the callback has failed.
CallbackReturns(ok) ==
    /\ asyncPc = "exec"
    /\ Len(frames) > 1
    /\ TopFrame.callType = "callback"
    /\ IF ok /\ ~GasDoesNotMatch(TopFrame)
          THEN /\ outputAccounts' = UpdateGasStateOnSuccess(TopFrame)
               /\ frames' = PopFrame(GasLeft(TopFrame))
               /\ UNCHANGED outputTransfers
          ELSE /\ outputAccounts' = TopFrame.savedAccounts
               /\ outputTransfers' = TopFrame.savedTransfers
               /\ frames' = [PopFrame(0) EXCEPT ![1].vmInputGas = 0]
    /\ asyncPc' = "local"
    /\ UNCHANGED <<gasProvided, asyncCalls, gasVMOutput, hostVars, ctxVars>>

RECURSIVE SendAll(_, _)
\* sendAsyncCallToDestination for every pending call: one outgoing transfer
\* each, with the call's gas limit and locked gas.
SendAll(calls, ts) ==
    IF calls = <<>> THEN ts
    ELSE SendAll(Tail(calls),
                 Append(ts, [gasLimit |-> Head(calls).GasLimit,
                             gasLocked |-> Head(calls).GasLocked]))

RECURSIVE SumGasLimit(_)
SumGasLimit(calls) ==
    IF calls = <<>> THEN 0 ELSE Head(calls).GasLimit + SumGasLimit(Tail(calls))

\* processAsyncContext after the local calls: the pending calls get their gas
\* again and are sent to their destinations; then the top-level frame ends.
SendPendingAsyncCalls ==
    /\ asyncPc = "local"
    /\ \A i \in DOMAIN asyncCalls : ~IsLocalPending(asyncCalls[i])
    /\ LET pending == SelectSeq(asyncCalls, IsPending)
           r == setupAsyncCallsGas(pending, GasLeft(TopFrame))
       IN IF pending = <<>>
             THEN FinishTopFrame(TopFrame, outputTransfers)
             ELSE IF r.err # NoError
                  THEN FinishFailed(TopFrame, r.err)
                  ELSE FinishTopFrame(UseGas(TopFrame, SumGasLimit(r.calls)),
                                      SendAll(r.calls, outputTransfers))
    /\ UNCHANGED <<gasProvided, asyncCalls, hostVars, ctxVars>>

\* savePendingAsyncCalls: the pending calls that the storage of the contract
\* holds when the call has ended; a failed frame leaves no storage update.
savePendingAsyncCalls ==
    IF asyncPc = "done" /\ gasVMOutput.returnCode = "Ok"
    THEN SelectSeq(asyncCalls, IsPending)
    ELSE <<>>

(***************************************************************************)
(* The state stacks of the contexts.                                       *)
(*                                                                         *)
(* The runtime, storage and blockchain contexts are those of part_005,     *)
(* part_004 and contexts/blockchain.go.  The managed types, output,        *)
(* metering and async contexts keep a state stack of their own; of these   *)
(* only the depth is modelled.  The host applies every stack operation to  *)
(* all the contexts together.                                              *)
(***************************************************************************)
ContextNames ==
    {"managedTypes", "output", "metering", "runtime", "async", "storage",
     "blockchain"}

\* The contexts whose saved state is modelled by its presence only.
OpaqueContexts == {"managedTypes", "output", "metering", "async"}

NilInstance == "nil"

InstanceIds == 1..(MaxStackDepth + 3)

\* The contract call inputs a nested call is made with.
CallInputs ==
    {[CallType |-> "DirectCall", CallerAddr |-> "parent", RecipientAddr |-> "child",
      Function |-> "transferToThirdParty", GasProvided |-> 1, GasLocked |-> 0],
     [CallType |-> "AsynchronousCallBack", CallerAddr |-> "child",
      RecipientAddr |-> "parent", Function |-> "callBack", GasProvided |-> 2,
      GasLocked |-> 0]}

TopLevelInput ==
    [CallType |-> "DirectCall", CallerAddr |-> "user", RecipientAddr |-> "parent",
     Function |-> "performAsyncCall", GasProvided |-> 3, GasLocked |-> 0]

\* The input of a context outside any call: &vmcommon.ContractCallInput{}.
EmptyInput ==
    [CallType |-> "", CallerAddr |-> "", RecipientAddr |-> "", Function |-> "",
     GasProvided |-> 0, GasLocked |-> 0]

\* SetVMInput: the runtime keeps a copy of the (non-nil) input, made field by
\* field.
SetVMInput(vmInput) ==
    [CallType |-> vmInput.CallType, CallerAddr |-> vmInput.CallerAddr,
     RecipientAddr |-> vmInput.RecipientAddr, Function |-> vmInput.Function,
     GasProvided |-> vmInput.GasProvided, GasLocked |-> vmInput.GasLocked]

CodeHashOf(address) == <<"hash", address>>

\* What a caller of the contexts can observe of the current frame.
Observable ==
    [runtime |-> runtime, storageAddress |-> storageAddress,
     blockchain |-> blockchainHook.state]

StackDepths ==
    [c \in ContextNames \cup {"instances"} |->
        IF c = "instances" THEN Len(instanceStack) ELSE Len(stateStack[c])]

Pop(stack) == IF stack = <<>> THEN stack ELSE SubSeq(stack, 1, Len(stack) - 1)

Top(stack) == stack[Len(stack)]

\* runtimeContext.PushState saves these fields of the frame.
RuntimeSavedState ==
    [vmInput |-> SetVMInput(runtime.vmInput), codeAddress |-> runtime.codeAddress,
     codeHash |-> runtime.codeHash, callFunction |-> runtime.callFunction,
     readOnly |-> runtime.readOnly]

\* blockChainHook.GetSnapshot: the length of the journal of the world state.
GetSnapshot == Len(blockchainHook.journal)

\* blockChainHook.RevertToSnapshot: the world state goes back to what it was
\* when the snapshot was taken.
RevertToSnapshot(snapshot) ==
    IF snapshot < Len(blockchainHook.journal)
    THEN [state |-> blockchainHook.journal[snapshot + 1],
          journal |-> SubSeq(blockchainHook.journal, 1, snapshot)]
    ELSE blockchainHook

\* popInstance: the instance stack loses its top, which becomes the current
\* instance (the current one is cleaned when it is another instance).
PopInstanceKeepingCurrent(current) == current

\* The bottom of the instance stack becomes the current instance.
PopInstanceBottom(current) ==
    IF instanceStack = <<>> THEN current ELSE instanceStack[1]

PopInstance(current) == IF instanceStack = <<>> THEN current ELSE Top(instanceStack)

\* PushState of every context; the runtime also pushes its instance.
PushState ==
    /\ Len(stateStack["runtime"]) < MaxStackDepth
    /\ Len(instanceStack) <= MaxStackDepth
    /\ stateStack' =
         [c \in ContextNames |->
            Append(stateStack[c],
                   CASE c = "runtime" -> RuntimeSavedState
                     [] c = "storage" -> storageAddress
                     [] c = "blockchain" -> GetSnapshot
                     [] OTHER -> "snapshot")]
    /\ instanceStack' = Append(instanceStack, runtime.instance)
    /\ pushed' = Append(pushed, [observable |-> Observable, depths |-> StackDepths])
    /\ UNCHANGED <<runtime, storageAddress, blockchainHook, hostVars, gasVars, storageVars, extVars>>

RestoredRuntime ==
    IF stateStack["runtime"] = <<>> THEN runtime
    ELSE LET prevState == Top(stateStack["runtime"])
         IN [vmInput |-> SetVMInput(prevState.vmInput),
             codeAddress |-> prevState.codeAddress,
             codeHash |-> prevState.codeHash,
             callFunction |-> prevState.callFunction,
             readOnly |-> prevState.readOnly,
             instance |-> PopInstance(runtime.instance)]

\* PopSetActiveState of every context: the saved state becomes the current one.
PopSetActiveState ==
    /\ ~(\A c \in ContextNames : stateStack[c] = <<>>)
    /\ stateStack' = [c \in ContextNames |-> Pop(stateStack[c])]
    /\ runtime' = RestoredRuntime
    /\ instanceStack' = IF stateStack["runtime"] = <<>> THEN instanceStack
                                                        ELSE Pop(instanceStack)
    /\ storageAddress' = IF stateStack["storage"] = <<>> THEN storageAddress
                                                         ELSE Top(stateStack["storage"])
    /\ blockchainHook' = IF stateStack["blockchain"] = <<>> THEN blockchainHook
                         ELSE RevertToSnapshot(Top(stateStack["blockchain"]))
    /\ pushed' = Pop(pushed)
    /\ UNCHANGED <<hostVars, gasVars, storageVars, extVars>>

\* PopDiscard of every context: the saved state is dropped; the runtime still
\* pops its instance stack.
PopDiscard ==
    /\ ~(\A c \in ContextNames : stateStack[c] = <<>>)
    /\ stateStack' = [c \in ContextNames |-> Pop(stateStack[c])]
    /\ runtime' = IF stateStack["runtime"] = <<>> THEN runtime
                  ELSE [runtime EXCEPT !.instance = PopInstance(runtime.instance)]
    /\ instanceStack' = IF stateStack["runtime"] = <<>> THEN instanceStack
                                                        ELSE Pop(instanceStack)
    /\ pushed' = Pop(pushed)
    /\ UNCHANGED <<storageAddress, blockchainHook, hostVars, gasVars, storageVars, extVars>>

\* The return from a successful nested call: the output and metering contexts
\* merge the nested state into the saved one, the blockchain context keeps the
\* nested effects, the other contexts go back to the saved state.
PopMergeActiveState ==
    /\ ~(\A c \in ContextNames : stateStack[c] = <<>>)
    /\ stateStack' = [c \in ContextNames |-> Pop(stateStack[c])]
    /\ runtime' = RestoredRuntime
    /\ instanceStack' = IF stateStack["runtime"] = <<>> THEN instanceStack
                                                        ELSE Pop(instanceStack)
    /\ storageAddress' = IF stateStack["storage"] = <<>> THEN storageAddress
                                                         ELSE Top(stateStack["storage"])
    /\ pushed' = Pop(pushed)
    /\ UNCHANGED <<blockchainHook, hostVars, gasVars, storageVars, extVars>>

\* ClearContextStateStack: ClearStateStack of every context.  The runtime's
\* ClearStateStack renews the state stack only.
ClearContextStateStack ==
    /\ stateStack' = [c \in ContextNames |-> <<>>]
    /\ pushed' = <<>>
    /\ UNCHANGED <<instanceStack, runtime, storageAddress, blockchainHook, hostVars,
                   gasVars, storageVars, extVars>>

\* runtimeContext.InitState: the fields of the frame get their default data;
\* the instance is not among them.
InitState ==
    [vmInput |-> EmptyInput, codeAddress |-> "", codeHash |-> "",
     callFunction |-> "", readOnly |-> FALSE, instance |-> runtime.instance]

\* initContexts: ClearContextStateStack, then InitState of every context.  The
\* InitState of the storage and blockchain contexts does nothing.
initContexts ==
    /\ stateStack' = [c \in ContextNames |-> <<>>]
    /\ pushed' = <<>>
    /\ runtime' = InitState
    /\ UNCHANGED <<instanceStack, storageAddress, blockchainHook, hostVars,
                   gasVars, storageVars, extVars>>

\* StartWasmerInstance makes a new instance the current one.
NewInstance ==
    CHOOSE id \in InstanceIds :
        /\ id # runtime.instance
        /\ \A i \in DOMAIN instanceStack : instanceStack[i] # id
        /\ \A j \in InstanceIds :
              (j # runtime.instance /\ \A i \in DOMAIN instanceStack : instanceStack[i] # j)
                  => id <= j

\* The callee's frame is set up and its code started: SetAddress of the storage
\* context, InitStateFromContractCallInput of the runtime, StartWasmerInstance.
InitStateFromContractCallInput(input) ==
    /\ runtime' = [runtime EXCEPT !.vmInput = SetVMInput(input),
                                  !.codeAddress = input.RecipientAddr,
                                  !.callFunction = input.Function,
                                  !.codeHash = CodeHashOf(input.RecipientAddr),
                                  !.instance = NewInstance]
    /\ storageAddress' = input.RecipientAddr
    /\ UNCHANGED <<stateStack, instanceStack, blockchainHook, pushed, hostVars,
                   gasVars, storageVars, extVars>>

\* runtime.SetReadOnly, as ExecuteReadOnly calls it around the nested call.
SetReadOnly(readOnly) ==
    /\ runtime.readOnly # readOnly
    /\ runtime' = [runtime EXCEPT !.readOnly = readOnly]
    /\ UNCHANGED <<stateStack, instanceStack, storageAddress, blockchainHook, pushed,
                   hostVars, gasVars, storageVars, extVars>>

\* A change of the world state made through the blockchain hook.
HookWrite ==
    /\ Len(blockchainHook.journal) < MaxHookWrites
    /\ blockchainHook' = [state |-> blockchainHook.state + 1,
                          journal |-> Append(blockchainHook.journal, blockchainHook.state)]
    /\ UNCHANGED <<stateStack, instanceStack, runtime, storageAddress, pushed,
                   hostVars, gasVars, storageVars, extVars>>

\* The contexts after initContexts, outside any call.
StackIdle ==
    /\ stateStack = [c \in ContextNames |-> <<>>]
    /\ instanceStack = <<>>
    /\ runtime = [vmInput |-> EmptyInput, codeAddress |-> "", codeHash |-> "",
                  callFunction |-> "", readOnly |-> FALSE, instance |-> NilInstance]
    /\ storageAddress = ""
    /\ blockchainHook = [state |-> 0, journal |-> <<>>]
    /\ pushed = <<>>

\* The contexts at the start of a top-level call.
StackInit ==
    /\ stateStack = [c \in ContextNames |-> <<>>]
    /\ instanceStack = <<>>
    /\ runtime = [vmInput |-> SetVMInput(TopLevelInput),
                  codeAddress |-> TopLevelInput.RecipientAddr,
                  codeHash |-> CodeHashOf(TopLevelInput.RecipientAddr),
                  callFunction |-> TopLevelInput.Function, readOnly |-> FALSE,
                  instance |-> 1]
    /\ storageAddress = TopLevelInput.RecipientAddr
    /\ blockchainHook = [state |-> 0, journal |-> <<>>]
    /\ pushed = <<>>

StackNext ==
    \/ PushState
    \/ PopSetActiveState
    \/ PopDiscard
    \/ PopMergeActiveState
    \/ ClearContextStateStack
    \/ initContexts
    \/ \E input \in CallInputs : InitStateFromContractCallInput(input)
    \/ \E readOnly \in BOOLEAN : SetReadOnly(readOnly)
    \/ HookWrite

(***************************************************************************)
(* The storage context (part_004).                                         *)
(*                                                                         *)
(* storageUpdates is the StorageUpdates map of every output account, meter *)
(* the gas of the frame, refund the output's gas refund.  Keys and values  *)
(* are byte strings; the storage behind the hook changes only when a        *)
(* built-in function writes to the world (HookWrite).  storageResult       *)
(* records the last call, writtenBy the operation that last changed the    *)
(* value of a key.                                                         *)
(***************************************************************************)
Addresses == {"parent", "child"}

ElrondReservedPrefix == <<"E">>

ProtectedStoragePrefix == <<"A">>

Keys == {<<"k">>, <<"E", "k">>, <<"A", "k">>}

Values == {<<>>, <<1>>, <<1, 2>>}

StorageUnchanged == "StorageUnchanged"
StorageModified == "StorageModified"
StorageAdded == "StorageAdded"
StorageDeleted == "StorageDeleted"

ErrStoreElrondReservedKey == "cannot write to storage under Elrond reserved key"
ErrCannotWriteProtectedKey == "cannot write to protected key"

\* bytes.HasPrefix
HasPrefix(key, prefix) ==
    /\ Len(prefix) <= Len(key)
    /\ \A i \in 1..Len(prefix) : key[i] = prefix[i]

NoKeyIsProtected(key) == FALSE

isArwenProtectedKey(key) == HasPrefix(key, ProtectedStoragePrefix)

isElrondReservedKey(key) == HasPrefix(key, ElrondReservedPrefix)

\* An account's map has no entry under a key.
NoUpdate == [present |-> FALSE, Data |-> <<>>, Written |-> FALSE]

\* blockChainHook.GetStorageData: what the accounts hold in the world behind
\* the hook.  A change of that world made by a built-in function changes the
\* values under the reserved keys; contracts cannot change them.
GetStorageData(address, key) ==
    IF address = "parent"
    THEN (IF key = <<"k">> THEN <<1>>
          ELSE IF isElrondReservedKey(key) /\ blockchainHook.state > 0 THEN <<1>>
          ELSE <<1, 2>>)
    ELSE <<>>

getStorageFromHook(updates, address, key) ==
    [value |-> GetStorageData(address, key), usedCache |-> FALSE, updates |-> updates]

\* A read that goes through the account's map whatever the key.
getStorageThroughCache(updates, address, key) ==
    IF updates[address][key].present
    THEN [value |-> updates[address][key].Data, usedCache |-> TRUE,
          updates |-> updates]
    ELSE [value |-> GetStorageData(address, key), usedCache |-> FALSE,
          updates |-> [updates EXCEPT ![address][key] =
                         [present |-> TRUE, Data |-> GetStorageData(address, key),
                          Written |-> FALSE]]]

\* getStorageFromAddressUnmetered: the value, whether it came from the map, and
\* the maps with the value cached on a miss.
getStorageFromAddressUnmetered(updates, address, key) ==
    IF /\ ~isArwenProtectedKey(key)
       /\ isElrondReservedKey(key)
       /\ flagUseDifferentGasCostForReadingCachedStorage
    THEN [value |-> GetStorageData(address, key), usedCache |-> FALSE,
          updates |-> updates]
    ELSE IF updates[address][key].present
         THEN [value |-> updates[address][key].Data, usedCache |-> TRUE,
               updates |-> updates]
         ELSE [value |-> GetStorageData(address, key), usedCache |-> FALSE,
               updates |-> [updates EXCEPT ![address][key] =
                              [present |-> TRUE, Data |-> GetStorageData(address, key),
                               Written |-> FALSE]]]

\* metering.UseGasBounded: the error, or the meter after the charge.
UseGasBounded(m, gas) ==
    IF gas > GasLeft(m) THEN [err |-> ErrNotEnoughGas, meter |-> m]
    ELSE [err |-> "", meter |-> UseGas(m, gas)]

\* useExtraGasForKeyIfNeeded and computeGasForKey charge the same amount.
computeGasForKey(key, usedCache) ==
    IF /\ Len(key) - AddressLen > 0
       /\ (~usedCache \/ ~flagUseDifferentGasCostForReadingCachedStorage)
    THEN DataCopyPerByte * (Len(key) - AddressLen)
    ELSE 0

\* useGasForValueIfNeeded and computeGasForUnchangedValue charge the same amount.
computeGasForUnchangedValue(length, usedCache) ==
    IF ~usedCache \/ ~flagUseDifferentGasCostForReadingCachedStorage
    THEN DataCopyPerByte * length
    ELSE 0

\* getOldValue: on a miss in the account's map the value is read through
\* GetStorageUnmetered, that is from the context's own address, and cached in
\* the account's map.
getOldValue(updates, address, key) ==
    IF ~updates[address][key].present
    THEN LET r == getStorageFromAddressUnmetered(updates, storageAddress, key)
         IN [oldValue |-> r.value, usedCache |-> FALSE,
             updates |-> [r.updates EXCEPT ![address][key] =
                            [present |-> TRUE, Data |-> r.value, Written |-> FALSE]]]
    ELSE [oldValue |-> updates[address][key].Data, usedCache |-> TRUE,
          updates |-> updates]

cacheStorageUpdate(updates, address, key, value) ==
    [updates EXCEPT ![address][key] =
        [present |-> TRUE, Data |-> value, Written |-> FALSE]]

changeStorageUpdate(updates, address, key, value) ==
    [updates EXCEPT ![address][key] =
        [present |-> TRUE, Data |-> value, Written |-> TRUE]]

\* What a write leaves when it stops before the maps are touched.
Refused(error) ==
    [status |-> StorageUnchanged, err |-> error, updates |-> storageUpdates,
     meter |-> meter, refund |-> refund, oldValue |-> <<>>, changed |-> FALSE]

storageFreesNothing(lengthOldValue) == 0

\* storageDeleted: the gas freed for the old value.
storageDeleted(lengthOldValue) == ReleasePerByte * lengthOldValue

\* The gas to use and the gas to free when a value replaces another one
\* (computeGasForBiggerValues, computeGasForSmallerValues).
computeGasForValues(lengthOldValue, length) ==
    IF length > lengthOldValue
    THEN [use |-> PersistPerByte * lengthOldValue
                    + StorePerByte * (length - lengthOldValue),
          free |-> 0]
    ELSE IF length < lengthOldValue
    THEN [use |-> PersistPerByte * length,
          free |-> ReleasePerByte * (lengthOldValue - length)]
    ELSE [use |-> 0, free |-> 0]

\* setStorageToAddress.  protectionEnabled is arwenStorageProtectionEnabled,
\* which the protected variants clear for the length of the call.
setStorageToAddress(address, key, value, protectionEnabled) ==
    IF runtime.readOnly THEN Refused("")
    ELSE IF ~isArwenProtectedKey(key) /\ isElrondReservedKey(key)
    THEN Refused(ErrStoreElrondReservedKey)
    ELSE IF isArwenProtectedKey(key) /\ protectionEnabled
    THEN Refused(ErrCannotWriteProtectedKey)
    ELSE
    LET old == getOldValue(storageUpdates, address, key)
        forKey == UseGasBounded(meter, computeGasForKey(key, old.usedCache))
        outcome(status, error, updates, m, freed, changed) ==
            [status |-> status, err |-> error, updates |-> updates, meter |-> m,
             refund |-> refund + freed, oldValue |-> old.oldValue,
             changed |-> changed]
    IN
    IF forKey.err # ""
    THEN outcome(StorageUnchanged, forKey.err, old.updates, meter, 0, FALSE)
    ELSE IF old.oldValue = value
    THEN LET u == UseGasBounded(forKey.meter,
                                computeGasForUnchangedValue(Len(value), old.usedCache))
         IN outcome(StorageUnchanged, u.err, old.updates, u.meter, 0, FALSE)
    ELSE
    LET updates == changeStorageUpdate(old.updates, address, key, value)
    IN
    IF old.oldValue = <<>>
    THEN LET u == UseGasBounded(forKey.meter, StorePerByte * Len(value))
         IN outcome(IF u.err # "" THEN StorageUnchanged ELSE StorageAdded,
                   u.err, updates, u.meter, 0, TRUE)
    ELSE IF value = <<>>
    THEN outcome(StorageDeleted, "", updates, forKey.meter,
                storageDeleted(Len(old.oldValue)), TRUE)
    ELSE
    LET gas == computeGasForValues(Len(old.oldValue), Len(value))
        u == UseGasBounded(forKey.meter, gas.use)
    IN IF u.err # ""
       THEN outcome(StorageUnchanged, u.err, updates, u.meter, 0, TRUE)
       ELSE outcome(StorageModified, "", updates, u.meter, gas.free, TRUE)

\* A write, as the three entry points make it.
StorageWrite(op, address, key, value, protectionEnabled) ==
    /\ storageOps < MaxStorageOps
    /\ LET r == setStorageToAddress(address, key, value, protectionEnabled)
       IN /\ storageUpdates' = r.updates
          /\ meter' = r.meter
          /\ refund' = r.refund
          /\ storageResult' = [op |-> op, address |-> address, key |-> key,
                               value |-> value, status |-> r.status, err |-> r.err,
                               oldValue |-> r.oldValue, readOnly |-> runtime.readOnly]
          /\ writtenBy' = IF r.changed
                          THEN [writtenBy EXCEPT ![address][key] = op]
                          ELSE writtenBy
    /\ storageOps' = storageOps + 1
    /\ UNCHANGED <<valueTransfers, flagUseDifferentGasCostForReadingCachedStorage,
                   stackVars, hostVars, gasVars, extVars>>

SetStorage(key, value) ==
    StorageWrite("SetStorage", storageAddress, key, value, TRUE)

SetProtectedStorage(key, value) ==
    StorageWrite("SetProtectedStorage", storageAddress, key, value, FALSE)

SetProtectedStorageToAddress(address, key, value) ==
    StorageWrite("SetProtectedStorageToAddress", address, key, value, FALSE)

\* GetStorageFromAddressNoChecks: the read and its two charges.  The account of
\* another address is taken to exist and to be readable.
GetStorageFromAddress(op, address, key) ==
    /\ storageOps < MaxStorageOps
    /\ LET r == getStorageFromAddressUnmetered(storageUpdates, address, key)
       IN /\ storageUpdates' = r.updates
          /\ meter' = UseGas(UseGas(meter, computeGasForKey(key, r.usedCache)),
                             computeGasForUnchangedValue(Len(r.value), r.usedCache))
          /\ storageResult' = [op |-> op, address |-> address, key |-> key,
                               value |-> r.value, status |-> StorageUnchanged,
                               err |-> "", oldValue |-> r.value,
                               readOnly |-> runtime.readOnly]
    /\ storageOps' = storageOps + 1
    /\ UNCHANGED <<refund, writtenBy, valueTransfers,
                   flagUseDifferentGasCostForReadingCachedStorage, stackVars, hostVars,
                   gasVars, extVars>>

GetStorage(key) == GetStorageFromAddress("GetStorage", storageAddress, key)

\* v1_5_transferValue: the contract sends value to another account.  No gas
\* goes with the transfer.  output.Transfer refuses a negative value, a sender
\* without the funds and a destination that is not payable; the sender is
\* taken to have the funds and the destination to be payable.
transferValue(value) ==
    /\ Len(valueTransfers) < MaxTransfers
    /\ value >= 0
    /\ valueTransfers' = Append(valueTransfers,
                                [sender |-> runtime.codeAddress, value |-> value,
                                 readOnly |-> runtime.readOnly])
    /\ UNCHANGED <<storageUpdates, meter, refund, storageResult, writtenBy,
                   storageOps, flagUseDifferentGasCostForReadingCachedStorage,
                   stackVars, hostVars, gasVars, extVars>>

\* SetAddress of the storage context.
SetAddress(address) ==
    /\ storageAddress # address
    /\ storageAddress' = address
    /\ UNCHANGED <<stateStack, instanceStack, runtime, blockchainHook, pushed,
                   storageVars, hostVars, gasVars, extVars>>

\* The storage context of a frame that has not touched the storage.
StorageIdle ==
    /\ storageUpdates = [a \in Addresses |-> [k \in Keys |-> NoUpdate]]
    /\ meter = [gasProvided |-> MaxStorageGas, pointsUsed |-> 0]
    /\ refund = 0
    /\ storageResult = [op |-> "none", address |-> "", key |-> <<>>, value |-> <<>>,
                        status |-> StorageUnchanged, err |-> "", oldValue |-> <<>>,
                        readOnly |-> FALSE]
    /\ writtenBy = [a \in Addresses |-> [k \in Keys |-> "none"]]
    /\ storageOps = 0
    /\ valueTransfers = <<>>
    /\ flagUseDifferentGasCostForReadingCachedStorage = TRUE

StorageNext ==
    \/ \E key \in Keys, value \in Values : SetStorage(key, value)
    \/ \E key \in Keys, value \in Values : SetProtectedStorage(key, value)
    \/ \E address \in Addresses, key \in Keys, value \in Values :
          SetProtectedStorageToAddress(address, key, value)
    \/ \E key \in Keys : GetStorage(key)
    \/ \E value \in 0..1 : transferValue(value)
    \/ \E readOnly \in BOOLEAN : SetReadOnly(readOnly)
    \/ \E address \in Addresses : SetAddress(address)

\* The reads and writes of a frame while built-in functions change the
\* world behind the hook.
ReservedKeyNext ==
    \/ \E key \in Keys : GetStorage(key)
    \/ \E key \in Keys, value \in Values : SetStorage(key, value)
    \/ HookWrite

(***************************************************************************)
(* The linear memory of the instance: MemLoad (unnamed/part_005).          *)
(* The words are WordBits wide instead of 32, so that the conversions and *)
(* the overflow of the addition happen within the bounds.                  *)
(***************************************************************************)
MinInt32 == -(2 ^ (WordBits - 1))

MaxInt32 == 2 ^ (WordBits - 1) - 1

Int32 == MinInt32..MaxInt32

\* uint32(x) of an int32.
ToUint32(x) == x % (2 ^ WordBits)

\* int32(x) of a sum that left the range, as the two's complement wraps it.
WrapInt32(x) == ((x - MinInt32) % (2 ^ WordBits)) + MinInt32

\* math.AddInt32: the sum, and on overflow what the helper yields instead
\* (the bound it saturates at, or the wrapped sum).
AddInt32(a, b) ==
    IF a + b \in Int32 THEN {a + b}
    ELSE {IF a + b > MaxInt32 THEN MaxInt32 ELSE MinInt32, WrapInt32(a + b)}

MemBytes == {1, 2}

Memories == UNION {[1..n -> MemBytes] : n \in 0..MaxMemLen}

ErrBadBounds == "bad bounds"

ErrNegativeLength == "negative length"

\* view[lo:hi] of Go, the bytes lo .. hi-1 counted from 0.
Slice(view, lo, hi) == SubSeq(view, lo + 1, hi)

\* A copy that keeps the source as it is, whatever the length asked for.
copyUnpadded(length, source) == source

\* copy(make([]byte, length), source): the bytes of source that fit, then zeros.
copy(length, source) ==
    [i \in 1..length |-> IF i <= Len(source) THEN source[i] ELSE 0]

NoMemLoad ==
    [called |-> FALSE, offset |-> 0, length |-> 0, data |-> <<>>, err |-> NoError,
     panic |-> FALSE, lo |-> 0, hi |-> 0]

\* What MemLoad returns when the addition yielded requestedEnd: the slice of
\* the view it takes is [lo, hi), and a slice outside of the view panics.
memLoadOutcome(view, offset, length, requestedEnd) ==
    LET memoryLength == Len(view)
        isOffsetTooSmall == offset < 0
        isOffsetTooLarge == ToUint32(offset) > memoryLength
        isRequestedEndTooLarge == ToUint32(requestedEnd) > memoryLength
        isLengthNegative == length < 0
        hi == IF isRequestedEndTooLarge THEN memoryLength ELSE requestedEnd
        call == [NoMemLoad EXCEPT !.called = TRUE, !.offset = offset,
                                  !.length = length]
    IN  IF length = 0 THEN call
        ELSE IF isOffsetTooSmall \/ isOffsetTooLarge
             THEN [call EXCEPT !.err = ErrBadBounds]
        ELSE IF isLengthNegative THEN [call EXCEPT !.err = ErrNegativeLength]
        ELSE IF offset > hi \/ hi > memoryLength
             THEN [call EXCEPT !.panic = TRUE, !.lo = offset, !.hi = hi]
        ELSE [call EXCEPT !.data = copy(length, Slice(view, offset, hi)),
                          !.lo = offset, !.hi = hi]

\* One load of the instance is observed.
MemLoad(offset, length) ==
    /\ ~memLoad.called
    /\ \E requestedEnd \in AddInt32(offset, length) :
          memLoad' = memLoadOutcome(memory, offset, length, requestedEnd)
    /\ UNCHANGED <<memory, instVars, asyncCtxVars, chainVars, cbVars, compileVars, stackVars, storageVars, hostVars, gasVars>>

\* No instance memory is observed.
MemIdle ==
    /\ memory = <<>>
    /\ memLoad = NoMemLoad

\* An instance with some memory, the empty one included.
MemInit ==
    /\ memory \in Memories
    /\ memLoad = NoMemLoad

MemNext == \E offset \in Int32, length \in Int32 : MemLoad(offset, length)

(***************************************************************************)
(* The Wasmer instances of the runtime context (unnamed/part_005), and the *)
(* calls of the host that make, stack and clean them.                      *)
(***************************************************************************)
ErrMaxInstancesReached == "max instances reached"

ErrInstanceCreation == "instance creation"

ErrVerifyContractCode == "contract invalid"

\* The nil instance handler.
NoWasmerInstance == 0

\* The instances the builder can hand out: more than the maximum.
WasmerInstances == 1..(MaximumWasmerInstanceCount + 2)

\* SetMaxInstanceCount(MaximumWasmerInstanceCount), at the creation of the host.
maxWasmerInstances == MaximumWasmerInstanceCount

\* A count that leaves out the instance at the top of the stack.
RunningInstancesBelowTop(stack) == Len(stack) - 1

RunningInstancesCount(stack) == Len(stack)

\* instanceBuilder.NewInstance...: an instance that is not live.
NewWasmerInstance(live) ==
    CHOOSE i \in WasmerInstances \ live : \A j \in WasmerInstances \ live : i <= j

NoStart == [called |-> FALSE, depth |-> 0, err |-> NoError]

\* instance.Clean() of a non-nil instance.
Clean(live, inst) == IF inst = NoWasmerInstance THEN live ELSE live \ {inst}

Creations == {"created", "builderError", "verifyError"}

\* StartWasmerInstance, with the outcome of the creation: "created", an error
\* of the builder, or an error of the verification of new code (which cleans
\* the instance just made).  Yields [instance, live, err].
startWasmerInstance(stack, live, creation) ==
    IF RunningInstancesCount(stack) >= maxWasmerInstances
    THEN [instance |-> NoWasmerInstance, live |-> live, err |-> ErrMaxInstancesReached]
    ELSE CASE creation = "created" ->
                [instance |-> NewWasmerInstance(live),
                 live |-> live \cup {NewWasmerInstance(live)}, err |-> NoError]
           [] creation = "builderError" ->
                [instance |-> NoWasmerInstance, live |-> live, err |-> ErrInstanceCreation]
           [] creation = "verifyError" ->
                [instance |-> NoWasmerInstance, live |-> live, err |-> ErrVerifyContractCode]

\* popInstance: yields [stack, instance, live].
popInstance(stack, current, live) ==
    IF stack = <<>> THEN [stack |-> stack, instance |-> current, live |-> live]
    ELSE LET prevInstance == Top(stack)
         IN  IF prevInstance = current
             THEN [stack |-> Pop(stack), instance |-> current, live |-> live]
             ELSE [stack |-> Pop(stack), instance |-> prevInstance,
                   live |-> Clean(live, current)]

\* A top-level run begins: the host starts the instance of the contract.
RunBegins(creation) ==
    /\ callDepth = 0
    /\ instCurrent = NoWasmerInstance
    /\ runs < MaxRuns
    /\ runs' = runs + 1
    /\ LET started == startWasmerInstance(instStack, liveInstances, creation)
       IN  /\ instCurrent' = started.instance
           /\ liveInstances' = started.live
           /\ startResult' = [called |-> TRUE, depth |-> Len(instStack),
                              err |-> started.err]
    /\ UNCHANGED <<instStack, callDepth, memVars, asyncCtxVars, chainVars, cbVars, compileVars, stackVars, storageVars, hostVars,
                   gasVars>>

\* The running contract makes a nested call: PushState (pushInstance), then
\* StartWasmerInstance for the called contract.
NestedCallBegins(creation) ==
    /\ runs > 0
    /\ instCurrent # NoWasmerInstance
    /\ instStack' = Append(instStack, instCurrent)
    /\ callDepth' = callDepth + 1
    /\ LET started == startWasmerInstance(instStack', liveInstances, creation)
       IN  /\ instCurrent' = started.instance
           /\ liveInstances' = started.live
           /\ startResult' = [called |-> TRUE, depth |-> Len(instStack'),
                              err |-> started.err]
    /\ UNCHANGED <<runs, memVars, asyncCtxVars, chainVars, cbVars, compileVars, stackVars, storageVars, hostVars, gasVars>>

\* The nested call returns, with or without an error: PopSetActiveState or
\* PopDiscard of the runtime context (popInstance).
NestedCallEnds ==
    /\ callDepth > 0
    /\ callDepth' = callDepth - 1
    /\ LET popped == popInstance(instStack, instCurrent, liveInstances)
       IN  /\ instStack' = popped.stack
           /\ instCurrent' = popped.instance
           /\ liveInstances' = popped.live
    /\ UNCHANGED <<startResult, runs, memVars, asyncCtxVars, chainVars, cbVars, compileVars, stackVars, storageVars, hostVars,
                   gasVars>>

\* The top-level run ends: CleanInstance.
RunEnds ==
    /\ runs > 0
    /\ callDepth = 0
    /\ instCurrent # NoWasmerInstance
    /\ liveInstances' = Clean(liveInstances, instCurrent)
    /\ instCurrent' = NoWasmerInstance
    /\ UNCHANGED <<instStack, startResult, callDepth, runs, memVars, asyncCtxVars, chainVars, cbVars, compileVars, stackVars,
                   storageVars, hostVars, gasVars>>

\* A host that has made no instance.
InstIdle ==
    /\ instStack = <<>>
    /\ instCurrent = NoWasmerInstance
    /\ liveInstances = {}
    /\ startResult = NoStart
    /\ callDepth = 0
    /\ runs = 0

InstNext ==
    \/ \E creation \in Creations : RunBegins(creation)
    \/ \E creation \in Creations : NestedCallBegins(creation)
    \/ NestedCallEnds
    \/ RunEnds

(***************************************************************************)
(* The async context of a call, its groups of calls, and the copy of the   *)
(* pending calls that the storage keeps for the cross-shard callbacks      *)
(* (unnamed/part_001).  Gas is left to GasSpec: here the gas set-up        *)
(* succeeds or fails with not-enough-gas.                                  *)
(***************************************************************************)
GroupIDs == {"g1", "g2"}

TxHashes == {"txA", "txB"}

CallerAddr == "parent"

AsyncDestinations == {"child", "wallet", "remoteA", "remoteB"}

\* The accounts of this shard, which the blockchain hook knows, and their code.
UserAccounts ==
    [a \in {"parent", "child", "wallet"} |-> IF a = "wallet" THEN <<>> ELSE <<"wasm">>]

SameShard(address) == address \in DOMAIN UserAccounts

ErrInvalidAccount == "invalid account"

ErrContractNotFound == "contract not found"

ErrCallBackFuncNotExpected == "unexpected callback was received"

ErrUnexpectedEndOfJSON == "unexpected end of JSON input"

\* blockchainContext.GetCode, for an address whose output account has no code.
GetCode(address) ==
    IF address \notin DOMAIN UserAccounts
    THEN [code |-> <<>>, err |-> ErrInvalidAccount]
    ELSE IF Len(UserAccounts[address]) = 0
         THEN [code |-> <<>>, err |-> ErrContractNotFound]
         ELSE [code |-> UserAccounts[address], err |-> NoError]

\* A host that takes every destination for a local contract.
canExecuteEverywhere(dest) == TRUE

canExecuteSynchronouslyOnDest(dest) ==
    Len(GetCode(dest).code) # 0 /\ GetCode(dest).err = NoError

\* The orders in which a range over a Go map with the keys S can yield them.
MapOrders(S) ==
    {o \in [1..Cardinality(S) -> S] : \A i, j \in DOMAIN o : i # j => o[i] # o[j]}

\* The order of the keys that json.Marshal writes a map in: sorted.
SortedKeys(S) == CHOOSE o \in MapOrders(S) : \A i \in DOMAIN o : (o[i] = "g1") => i = 1

RECURSIVE GroupCalls(_, _, _)
\* <<group id, position>> of the calls, group by group in the given order.
GroupCalls(ctx, order, from) ==
    IF from > Len(order) THEN <<>>
    ELSE [i \in 1..Len(ctx[order[from]]) |-> <<order[from], i>>]
            \o GroupCalls(ctx, order, from + 1)

\* The calls of all the groups of a context.
AllCalls(ctx) == UNION {{ctx[g][i] : i \in DOMAIN ctx[g]} : g \in DOMAIN ctx}

NoGroups == [g \in {} |-> <<>>]

\* getPendingAsyncCalls: the groups that have pending calls, with these calls.
getPendingAsyncCalls(ctx) ==
    [g \in {h \in DOMAIN ctx : \E i \in DOMAIN ctx[h] : IsPending(ctx[h][i])} |->
        SelectSeq(ctx[g], IsPending)]

\* The number json.Marshal writes for a status, and back.
StatusCode(status) ==
    CASE status = "pending" -> 0 [] status = "resolved" -> 1 [] status = "rejected" -> 2

StatusOfCode(code) ==
    CASE code = 0 -> "pending" [] code = 1 -> "resolved" [] code = 2 -> "rejected"

\* A serialisation that keeps the first group only.
MarshalFirstGroup(ctx) ==
    <<"AsyncCallGroups",
      [n \in 1..1 |->
          LET g == SortedKeys(DOMAIN ctx)[n]
          IN  <<g, [i \in DOMAIN ctx[g] |->
                      <<ctx[g][i].id, ctx[g][i].Destination,
                        StatusCode(ctx[g][i].Status)>>]>>]>>

\* json.Marshal of a context: the groups by sorted id, each call by its fields.
Marshal(ctx) ==
    <<"AsyncCallGroups",
      [n \in 1..Cardinality(DOMAIN ctx) |->
          LET g == SortedKeys(DOMAIN ctx)[n]
          IN  <<g, [i \in DOMAIN ctx[g] |->
                      <<ctx[g][i].id, ctx[g][i].Destination,
                        StatusCode(ctx[g][i].Status)>>]>>]>>

NoData == <<>>

\* json.Unmarshal of a stored value that is not empty.
Unmarshal(data) ==
    LET pairs == data[2]
    IN  [g \in {pairs[n][1] : n \in DOMAIN pairs} |->
            LET n == CHOOSE m \in DOMAIN pairs : pairs[m][1] = g
            IN  [i \in DOMAIN pairs[n][2] |->
                    [id |-> pairs[n][2][i][1], Destination |-> pairs[n][2][i][2],
                     Status |-> StatusOfCode(pairs[n][2][i][3])]]]

AsyncDataPrefix == "asyncData"

\* arwen.CustomStorageKey(keyType, associatedKey).
CustomStorageKey(keyType, associatedKey) == <<keyType, associatedKey>>

AsyncStorageKeys == {CustomStorageKey(AsyncDataPrefix, h) : h \in TxHashes}

\* storage.SetStorage(key, value) of the current account, outside read-only
\* mode and with the protection of the storage enabled: [store, err].
setAsyncStorage(store, key, value) ==
    IF ~isArwenProtectedKey(key) /\ isElrondReservedKey(key)
    THEN [store |-> store, err |-> ErrStoreElrondReservedKey]
    ELSE IF isArwenProtectedKey(key)
         THEN [store |-> store, err |-> ErrCannotWriteProtectedKey]
         ELSE [store |-> [store EXCEPT ![key] = value], err |-> NoError]

\* savePendingAsyncCalls, on the storage: [store, err].
savePendingGroups(store, pending, txHash) ==
    IF DOMAIN pending = {} THEN [store |-> store, err |-> NoError]
    ELSE setAsyncStorage(store, CustomStorageKey(AsyncDataPrefix, txHash),
                         Marshal(pending))

\* What the two nested executions of a local call can come to.
Outcomes == {"resolved", "callbackFails", "destFails", "childPending"}

\* A host that leaves the output as the callback left it.
ignoreCallbackVMOutput(data, callBackOk, txHash) == data

\* processCallbackVMOutput: a failed callback finishes its return code and the
\* current tx-hash (that of the call) onto the output and is not an error.
processCallbackVMOutput(data, callBackOk, txHash) ==
    IF callBackOk THEN data
    ELSE data \o <<<<"returnCode", "UserError">>, <<"txHash", txHash>>>>

\* callbackAsync: the status of the call is set; the input of the callback
\* cannot be made from the output of a failed destination (it has no gas
\* remaining); else the callback is executed on the destination context.
callbackAsync(st, g, i, outcome) ==
    LET call == st.ctx[g][i]
        status == IF outcome = "destFails" THEN "rejected" ELSE "resolved"
        st1 == [st EXCEPT !.ctx[g][i].Status = status]
    IN  IF outcome = "destFails" THEN [st1 EXCEPT !.err = ErrNotEnoughGas]
        ELSE IF outcome = "resolved"
             THEN [st1 EXCEPT !.returnData =
                                 processCallbackVMOutput(
                                     Append(@, <<"callback", call.id>>), TRUE, st.txHash),
                              !.effects = @ \cup {<<"callback", call.id>>}]
             ELSE [st1 EXCEPT !.returnData =
                                 processCallbackVMOutput(@, FALSE, st.txHash)]

\* processAsyncCall: the destination is executed; the callback follows unless
\* the destination has pending calls of its own.
processAsyncCall(st, g, i, outcome) ==
    LET call == st.ctx[g][i]
        atDest == [st EXCEPT !.executed = Append(@, call.id)]
        afterDest ==
            IF outcome = "destFails" THEN atDest
            ELSE [atDest EXCEPT !.returnData = Append(@, <<"result", call.id>>),
                                !.effects = @ \cup {<<"destination", call.id>>}]
    IN  IF outcome = "childPending" THEN afterDest
        ELSE callbackAsync(afterDest, g, i, outcome)

RECURSIVE localPhase(_, _, _)
\* The first loop of processAsyncContext, over the calls in the order of the
\* range; the first error ends it.
localPhase(st, todo, outcomes) ==
    IF todo = <<>> \/ st.err # NoError THEN st
    ELSE LET g == Head(todo)[1]
             i == Head(todo)[2]
         IN  IF ~canExecuteSynchronouslyOnDest(st.ctx[g][i].Destination)
             THEN localPhase(st, Tail(todo), outcomes)
             ELSE localPhase(processAsyncCall(st, g, i, outcomes[st.ctx[g][i].id]),
                             Tail(todo), outcomes)

\* A host that sends nothing.
sendNothing(transfers, call) == transfers

\* sendAsyncCallToDestination: the output account of the destination gets the
\* call type, and the transfer is made.
sendAsyncCallToDestination(transfers, call) ==
    Append(transfers, [destination |-> call.Destination,
                       callType |-> "AsynchronousCall", id |-> call.id])

RECURSIVE sendPhase(_, _, _)
\* The last loop of processAsyncContext.
sendPhase(transfers, pending, todo) ==
    IF todo = <<>> THEN transfers
    ELSE LET call == pending[Head(todo)[1]][Head(todo)[2]]
         IN  IF ~canExecuteSynchronouslyOnDest(call.Destination)
             THEN sendPhase(sendAsyncCallToDestination(transfers, call), pending,
                            Tail(todo))
             ELSE sendPhase(transfers, pending, Tail(todo))

NoAsyncErr == [err |-> NoError, at |-> "none"]

\* The contract registers an async call in a group: a pending call, added
\* after the calls the group has.
RegisterCallInGroup(g, dest) ==
    /\ asyncPhase = "exec"
    /\ Len(registered) < MaxAsyncCalls
    /\ LET call == [id |-> Len(registered) + 1, Destination |-> dest,
                    Status |-> "pending"]
       IN  asyncContext' =
              [h \in DOMAIN asyncContext \cup {g} |->
                  IF h = g
                  THEN IF g \in DOMAIN asyncContext THEN Append(asyncContext[g], call)
                                                    ELSE <<call>>
                  ELSE asyncContext[h]]
    /\ registered' = Append(registered, g)
    /\ UNCHANGED <<originalTxHash, returnData, effects, executed, asyncTransfers,
                   asyncStorage, asyncErr, asyncPhase, callbacksReceived,
                   callbackTriggers, memVars, instVars, chainVars, cbVars, compileVars, stackVars, storageVars,
                   hostVars, gasVars>>

\* processAsyncContext, when the contract has returned.  localOrder is the
\* order in which the range over the groups yields them, outcomes what the
\* nested executions of each call come to, gas whether the calls can be given
\* their gas at the two gas set-ups.
ProcessAsyncContextGroups(localOrder, outcomes, gas) ==
    /\ asyncPhase = "exec"
    /\ \A call \in AllCalls(asyncContext) :
          \* a call that is sent away has no nested execution here
          ~canExecuteSynchronouslyOnDest(call.Destination) =>
              outcomes[call.id] = "resolved"
    /\ callbacksReceived' = callbacksReceived
    /\ callbackTriggers' = callbackTriggers
    /\ originalTxHash' = originalTxHash
    /\ registered' = registered
    /\ UNCHANGED <<memVars, instVars, chainVars, cbVars, compileVars, stackVars, storageVars, hostVars, gasVars>>
    /\ IF DOMAIN asyncContext = {}
       THEN /\ asyncPhase' = "processed"
            /\ asyncErr' = NoAsyncErr
            /\ UNCHANGED <<asyncContext, returnData, effects, executed,
                           asyncTransfers, asyncStorage>>
       ELSE IF gas = "notEnoughAtSetup"
       THEN /\ asyncPhase' = "failed"
            /\ asyncErr' = [err |-> ErrNotEnoughGas, at |-> "setup"]
            /\ UNCHANGED <<asyncContext, returnData, effects, executed,
                           asyncTransfers, asyncStorage>>
       ELSE LET st == localPhase([ctx |-> asyncContext, returnData |-> returnData,
                                  effects |-> effects, executed |-> executed,
                                  err |-> NoError, txHash |-> originalTxHash],
                                 GroupCalls(asyncContext, localOrder, 1), outcomes)
                pending == getPendingAsyncCalls(st.ctx)
                saved == savePendingGroups(asyncStorage, pending, originalTxHash)
            IN  /\ asyncContext' = st.ctx
                /\ returnData' = st.returnData
                /\ effects' = st.effects
                /\ executed' = st.executed
                /\ IF st.err # NoError
                   THEN /\ asyncPhase' = "failed"
                        /\ asyncErr' = [err |-> st.err, at |-> "callback"]
                        /\ UNCHANGED <<asyncTransfers, asyncStorage>>
                   ELSE IF DOMAIN pending = {}
                   THEN /\ asyncPhase' = "processed"
                        /\ asyncErr' = NoAsyncErr
                        /\ UNCHANGED <<asyncTransfers, asyncStorage>>
                   ELSE IF saved.err # NoError
                   THEN /\ asyncPhase' = "failed"
                        /\ asyncErr' = [err |-> saved.err, at |-> "save"]
                        /\ UNCHANGED <<asyncTransfers, asyncStorage>>
                   ELSE IF gas = "notEnoughAtSend"
                   THEN /\ asyncPhase' = "failed"
                        /\ asyncErr' = [err |-> ErrNotEnoughGas, at |-> "send"]
                        /\ asyncStorage' = saved.store
                        /\ UNCHANGED asyncTransfers
                   ELSE /\ asyncPhase' = "processed"
                        /\ asyncErr' = NoAsyncErr
                        /\ asyncStorage' = saved.store
                        /\ \E sendOrder \in MapOrders(DOMAIN pending) :
                              asyncTransfers' =
                                 sendPhase(asyncTransfers, pending,
                                           GroupCalls(pending, sendOrder, 1))

\* The groups of the first call with the given destination, in the order of
\* the range: <<group id, position>>, or <<>> when no call has it.
findCallOf(ctx, order, callerAddr) ==
    LET matches == SelectSeq(GroupCalls(ctx, order, 1),
                             LAMBDA p : ctx[p[1]][p[2]].Destination = callerAddr)
    IN  IF matches = <<>> THEN <<>> ELSE Head(matches)

\* The calls of a group without the one at the position: the last call takes
\* its place.
removeCall(calls, position) ==
    [j \in 1..(Len(calls) - 1) |-> IF j = position THEN calls[Len(calls)] ELSE calls[j]]

\* The context of processCallbackStack after the removal of the call at
\* <<g, position>>; a group left without calls is deleted.
removeFromContext(ctx, g, position) ==
    LET calls == removeCall(ctx[g], position)
    IN  [h \in IF calls = <<>> THEN DOMAIN ctx \ {g} ELSE DOMAIN ctx |->
            IF h = g THEN calls ELSE ctx[h]]

\* processCallbackStack: a callback arrives from another shard, in a
\* transaction of its own with the given original tx-hash.
ProcessCallbackStack(callerAddr, txHash, order) ==
    /\ asyncPhase = "processed"
    /\ Len(callbacksReceived) < MaxAsyncCalls
    /\ LET storageKey == CustomStorageKey(AsyncDataPrefix, txHash)
           buff == asyncStorage[storageKey]
           ctx == IF Len(buff) = 0 THEN NoGroups ELSE Unmarshal(buff)
       IN  /\ order \in MapOrders(DOMAIN ctx)
           /\ LET found == findCallOf(ctx, order, callerAddr)
                  remaining == IF found = <<>> THEN ctx
                               ELSE removeFromContext(ctx, found[1], found[2])
                  received(error) ==
                      Append(callbacksReceived,
                             [caller |-> callerAddr, txHash |-> txHash,
                              err |-> error, remaining |-> remaining])
              IN  \* a refused callback returns its error and changes nothing
                  /\ IF Len(buff) = 0
                     THEN /\ callbacksReceived' = callbacksReceived
                          /\ UNCHANGED <<asyncStorage, callbackTriggers, asyncTransfers>>
                     ELSE IF found = <<>>
                     THEN /\ callbacksReceived' = callbacksReceived
                          /\ UNCHANGED <<asyncStorage, callbackTriggers, asyncTransfers>>
                     ELSE IF DOMAIN remaining # {}
                     THEN /\ callbacksReceived' = received(NoError)
                          /\ UNCHANGED <<asyncStorage, callbackTriggers, asyncTransfers>>
                     ELSE /\ callbacksReceived' = received(NoError)
                          /\ asyncStorage' =
                                setAsyncStorage(asyncStorage, storageKey, NoData).store
                          /\ callbackTriggers' = callbackTriggers + 1
                          /\ asyncTransfers' =
                                IF canExecuteSynchronouslyOnDest(CallerAddr)
                                THEN asyncTransfers
                                ELSE Append(asyncTransfers,
                                            [destination |-> CallerAddr,
                                             callType |-> "AsynchronousCallBack",
                                             id |-> 0])
    /\ UNCHANGED <<asyncContext, registered, originalTxHash, returnData, effects,
                   executed, asyncErr, asyncPhase, memVars, instVars, chainVars, cbVars, compileVars, stackVars,
                   storageVars, hostVars, gasVars>>

\* No async call is observed.
AsyncCtxIdle ==
    /\ asyncContext = NoGroups
    /\ registered = <<>>
    /\ originalTxHash = "txA"
    /\ returnData = <<>>
    /\ effects = {}
    /\ executed = <<>>
    /\ asyncTransfers = <<>>
    /\ asyncStorage = [k \in AsyncStorageKeys |-> NoData]
    /\ asyncErr = NoAsyncErr
    /\ asyncPhase = "processed"
    /\ callbacksReceived = <<>>
    /\ callbackTriggers = 0

\* A call begins with an empty async context, in some transaction.
AsyncCtxInit ==
    /\ asyncContext = NoGroups
    /\ registered = <<>>
    /\ originalTxHash \in TxHashes
    /\ returnData = <<>>
    /\ effects = {}
    /\ executed = <<>>
    /\ asyncTransfers = <<>>
    /\ asyncStorage = [k \in AsyncStorageKeys |-> NoData]
    /\ asyncErr = NoAsyncErr
    /\ asyncPhase = "exec"
    /\ callbacksReceived = <<>>
    /\ callbackTriggers = 0

AsyncCtxNext ==
    \/ \E g \in GroupIDs, dest \in AsyncDestinations : RegisterCallInGroup(g, dest)
    \/ \E localOrder \in MapOrders(DOMAIN asyncContext),
          outcomes \in [1..Len(registered) -> Outcomes],
          gas \in {"enough", "notEnoughAtSetup", "notEnoughAtSend"} :
             ProcessAsyncContextGroups(localOrder, outcomes, gas)
    \/ \E callerAddr \in AsyncDestinations, txHash \in TxHashes,
          order \in UNION {MapOrders(S) : S \in SUBSET GroupIDs} :
             ProcessCallbackStack(callerAddr, txHash, order)

(***************************************************************************)
(* Chain completion (contexts/async, NotifyChildIsComplete).  A chain of   *)
(* async contexts: the context at position 1 belongs to the first call,    *)
(* the context at position k + 1 to a call made by the contract of the     *)
(* context at position k.  chainContexts holds the stored copy of each     *)
(* context; the persisted field tells whether the copy is in storage.      *)
(***************************************************************************)
ChainPositions == 1..ChainDepth

\* The children a context of the chain still waits for.
ChildrenCounts == {1, 2}

\* The gas a remote child hands back with its notification.
NotifyGas == {1}

CallTypes == {"DirectCall", "AsynchronousCall", "AsynchronousCallBack"}

NilCallID == <<>>

\* The id under which the call that made context k is recorded by the parent.
GetCallID(k) == <<"call", k>>

GetCallerCallID(k) == <<"call", k>>

\* The id of a call of the context that runs on another shard.
RemoteCallID == <<"call", 0>>

ChainCallIDs == {GetCallID(k) : k \in ChainPositions} \cup {RemoteCallID}

ErrAsyncCallNotFound == "async call not found"

ErrNoStoredAsyncContextFound == "no async context found in storage"

IsFirstCall(k) == k = 1

IsComplete(c) == c.callsCounter = 0 /\ c.calls = {}

\* A child reports without its call being removed from the context.
CompleteChildKeepingCall(c, isChildComplete, callID, gasToAccumulate) ==
    IF ~isChildComplete
    THEN [ctx |-> c, err |-> NoError]
    ELSE [ctx |-> [c EXCEPT !.callsCounter = @ - 1,
                            !.gasAccumulated = @ + gasToAccumulate],
          err |-> NoError]

CompleteChildConditional(c, isChildComplete, callID, gasToAccumulate) ==
    IF ~isChildComplete
    THEN [ctx |-> c, err |-> NoError]
    ELSE LET counted == [c EXCEPT !.callsCounter = @ - 1,
                                  !.gasAccumulated = @ + gasToAccumulate]
         IN  IF callID # NilCallID
             THEN IF callID \in counted.calls
                  THEN [ctx |-> [counted EXCEPT !.calls = @ \ {callID}],
                        err |-> NoError]
                  ELSE [ctx |-> counted, err |-> ErrAsyncCallNotFound]
             ELSE [ctx |-> counted, err |-> NoError]

completeChild(c, callID, gasToAccumulate) ==
    CompleteChildConditional(c, TRUE, callID, gasToAccumulate)

\* What one NotifyChildIsComplete call leaves in lastNotify.
Visit(k, callID, gasToAccumulate, before, after, callbackComplete, error) ==
    [ctx |-> k, callID |-> callID, gas |-> gasToAccumulate, before |-> before,
     after |-> after, callbackComplete |-> callbackComplete, err |-> error]

RECURSIVE NotifyChildIsComplete(_, _, _, _, _)
RECURSIVE complete(_, _, _, _, _, _)

\* NotifyChildIsComplete on the context at position k.  callbacks tells, for
\* each position, whether the callback run for that context leaves no call
\* of its own pending.
NotifyChildIsComplete(cs, k, callID, gasToAccumulate, callbacks) ==
    IF ~cs[k].persisted
    THEN [contexts |-> cs,
          log |-> <<Visit(k, callID, gasToAccumulate, cs[k], cs[k], FALSE,
                          ErrNoStoredAsyncContextFound)>>]
    ELSE LET counted == completeChild(cs[k], callID, gasToAccumulate)
         IN  IF counted.err # NoError
             THEN [contexts |-> cs,
                   log |-> <<Visit(k, callID, gasToAccumulate, cs[k], counted.ctx,
                                   FALSE, counted.err)>>]
             ELSE IF ~IsComplete(counted.ctx)
             THEN \* context.Save()
                  [contexts |-> [cs EXCEPT ![k] = counted.ctx],
                   log |-> <<Visit(k, callID, gasToAccumulate, cs[k], counted.ctx,
                                   FALSE, NoError)>>]
             ELSE complete(cs, k, callID, gasToAccumulate, counted.ctx, callbacks)

complete(cs, k, callID, gasToAccumulate, c, callbacks) ==
    LET deleted == [cs EXCEPT ![k] = [c EXCEPT !.persisted = FALSE]]
        visit(cb) == Visit(k, callID, gasToAccumulate, cs[k], c, cb, NoError)
        parent(id, gas, cb) ==
            LET up == NotifyChildIsComplete(deleted, k - 1, id, gas, callbacks)
            IN  [contexts |-> up.contexts, log |-> <<visit(cb)>> \o up.log]
    IN  IF IsFirstCall(k)
        THEN [contexts |-> deleted, log |-> <<visit(FALSE)>>]
        ELSE IF c.callType = "AsynchronousCall"
        THEN IF callbacks[k]
             THEN parent(GetCallID(k), 0, TRUE)
             ELSE [contexts |-> deleted, log |-> <<visit(FALSE)>>]
        ELSE IF c.callType = "AsynchronousCallBack"
        THEN parent(GetCallerCallID(k), c.gasAccumulated, FALSE)
        ELSE parent(NilCallID, c.gasAccumulated, FALSE)

NoNotify == <<>>

\* A child of the context at position k finishes: the call below it in the
\* chain, or a call of the context that ran on another shard.
ChildCompletes(k, callID, gasToAccumulate, callbacks) ==
    /\ chainContexts[k].persisted
    /\ \A j \in ChainPositions :
          \* only a callback that can run may leave calls pending
          ~callbacks[j] => /\ 1 < j
                           /\ j <= k
                           /\ chainContexts[j].persisted
                           /\ chainContexts[j].callType = "AsynchronousCall"
    /\ chainContexts[k].callsCounter > 0
    /\ IF k < ChainDepth /\ chainContexts[k + 1].persisted
       THEN chainContexts[k].callsCounter > 1
       ELSE TRUE
    /\ LET notified == NotifyChildIsComplete(chainContexts, k, callID,
                                             gasToAccumulate, callbacks)
       IN  /\ chainContexts' = notified.contexts
           /\ lastNotify' = notified.log
    /\ UNCHANGED <<memVars, instVars, asyncCtxVars, cbVars, compileVars, stackVars, storageVars,
                   hostVars, gasVars>>

\* The calls a context of the chain records: the call below it, when that one
\* is asynchronous, and possibly one call on another shard.
RecordedCalls(types, k, remote) ==
    (IF k < ChainDepth /\ types[k + 1] # "DirectCall"
     THEN {GetCallID(k + 1)} ELSE {})
    \cup (IF remote[k] THEN {RemoteCallID} ELSE {})

ChainInit ==
    /\ \E types \in [ChainPositions -> CallTypes],
          counters \in [ChainPositions -> ChildrenCounts],
          remote \in [ChainPositions -> BOOLEAN] :
            /\ types[1] = "DirectCall"
            /\ chainContexts =
                 [k \in ChainPositions |->
                    [callsCounter |-> counters[k],
                     gasAccumulated |-> 0,
                     calls |-> RecordedCalls(types, k, remote),
                     callType |-> types[k],
                     persisted |-> TRUE]]
    /\ lastNotify = NoNotify

ChainIdle ==
    /\ chainContexts =
         [k \in ChainPositions |->
            [callsCounter |-> 1, gasAccumulated |-> 0, calls |-> {},
             callType |-> "DirectCall", persisted |-> TRUE]]
    /\ lastNotify = NoNotify

ChainNext ==
    \E k \in ChainPositions, callID \in {NilCallID, RemoteCallID},
       gasToAccumulate \in NotifyGas,
       callbacks \in [ChainPositions -> BOOLEAN] :
          ChildCompletes(k, callID, gasToAccumulate, callbacks)


(***************************************************************************)
(* The callback of a locally executed async call (part_001:189-269,        *)
(* 353-380).  Byte strings and names are sequences, so that their lengths  *)
(* count.                                                                  *)
(***************************************************************************)
ReturnCodes == {"Ok", "UserError"}

\* big.NewInt(int64(ReturnCode)).Bytes(): Ok is 0 and has no bytes, UserError
\* is 4.
ReturnCodeBytes(code) == IF code = "Ok" THEN <<>> ELSE <<4>>

CallbackNames == {<<>>, <<"o", "k">>, <<"e", "r", "r">>}

ByteStrings == {<<>>, <<7>>}

ReturnMessages == {<<>>, <<5, 6>>}

ReturnDatas == UNION {[1..n -> ByteStrings] : n \in 0..MaxReturnData}

NilInput == <<>>

RECURSIVE SumLen(_)
SumLen(arguments) ==
    IF arguments = <<>> THEN 0 ELSE Len(Head(arguments)) + SumLen(Tail(arguments))

\* The length of the arguments alone.
computeDataLengthOfArguments(function, arguments) == SumLen(arguments)

\* computeDataLengthFromArguments: the length of "function@arg1@arg2...".
computeDataLengthFromArguments(function, arguments) ==
    Len(function) + Len(arguments) + SumLen(arguments)

\* createCallbackContractCallInput, with its arguments and under any gas
\* schedule.
createCallbackContractCallInputArgs(destinationVMOutput, callbackInitiator, callbackFunction, destinationErr) ==
    LET arguments ==
            IF destinationErr = NoError
            THEN <<ReturnCodeBytes(destinationVMOutput.ReturnCode)>>
                    \o destinationVMOutput.ReturnData
            ELSE <<ReturnCodeBytes(destinationVMOutput.ReturnCode),
                   destinationVMOutput.ReturnMessage>>
        gasLimit == destinationVMOutput.GasRemaining
        dataLength == computeDataLengthFromArguments(callbackFunction, arguments)
        gasToUse == AsyncCallStep + DataCopyPerByte * dataLength
    IN  IF gasLimit <= gasToUse
        THEN [input |-> NilInput, err |-> ErrNotEnoughGas]
        ELSE [input |-> [CallerAddr |-> callbackInitiator,
                         Arguments |-> arguments,
                         CallType |-> "AsynchronousCallBack",
                         GasProvided |-> gasLimit - gasToUse,
                         RecipientAddr |-> "parent",
                         Function |-> callbackFunction],
              err |-> NoError]

NoCallbackResult ==
    [called |-> FALSE, err |-> NoError, input |-> NilInput, executed |-> <<>>,
     finished |-> <<>>]

\* callbackAsync on the call, with the VM output and the error of its
\* destination call; callBackOk tells whether the callback succeeds.
CallbackAsync(callBackOk) ==
    /\ ~cbResult.called
    /\ LET status == IF cbDestination.ReturnCode # "Ok" THEN "rejected"
                                                        ELSE "resolved"
           callbackFunction == IF cbDestination.ReturnCode # "Ok"
                               THEN cbCall.ErrorCallback
                               ELSE cbCall.SuccessCallback
           made == createCallbackContractCallInputArgs(
                       cbDestination, cbCall.Destination, callbackFunction,
                       cbDestination.err)
       IN  /\ cbCall' = [cbCall EXCEPT !.Status = status]
           /\ cbResult' =
                IF made.err # NoError
                THEN [called |-> TRUE, err |-> made.err, input |-> NilInput,
                      executed |-> <<>>, finished |-> <<>>]
                ELSE [called |-> TRUE, err |-> NoError, input |-> made.input,
                      executed |-> <<made.input>>,
                      finished |-> processCallbackVMOutput(<<>>, callBackOk, "txA")]
    /\ UNCHANGED <<cbDestination, memVars, instVars, asyncCtxVars, chainVars,
                   compileVars, stackVars, storageVars, hostVars, gasVars>>

\* A destination call has returned: its VM output says Ok exactly when it
\* returned no error.
CbInit ==
    /\ cbCall \in [Status : {"pending"}, SuccessCallback : CallbackNames,
                   ErrorCallback : CallbackNames, Destination : {"child"}]
    /\ cbDestination \in [ReturnCode : ReturnCodes, ReturnData : ReturnDatas,
                          ReturnMessage : ReturnMessages,
                          GasRemaining : 0..MaxCallbackGas,
                          err : {NoError, "execution failed"}]
    /\ (cbDestination.err = NoError) <=> (cbDestination.ReturnCode = "Ok")
    /\ cbResult = NoCallbackResult

CbIdle ==
    /\ cbCall = [Status |-> "pending", SuccessCallback |-> <<>>,
                 ErrorCallback |-> <<>>, Destination |-> "child"]
    /\ cbDestination = [ReturnCode |-> "Ok", ReturnData |-> <<>>,
                        ReturnMessage |-> <<>>, GasRemaining |-> 0,
                        err |-> NoError]
    /\ cbResult = NoCallbackResult

CbNext == \E callBackOk \in BOOLEAN : CallbackAsync(callBackOk)


(***************************************************************************)
(* The creation of the instance of a contract: from the compiled code the  *)
(* hook holds or from the bytecode (part_005:945-1079, 1398-1426).         *)
(***************************************************************************)
\* The contracts a start is given, by what the validator finds in them.
Contracts == {"valid", "noMemory", "illegalImport", "protectedExport"}

\* crypto.Sha256 of the bytecode; GetCodeHash of an account without code
\* hash is empty.
Sha256(contract) == <<"sha256", contract>>
EmptyCodeHash == <<>>

ErrMemoryDeclarationMissing == "invalid contract code (missing memory declaration)"
ErrIllegalImport == "invalid contract code (illegal import)"
ErrProtectedExport == "invalid contract code (protected export)"
VerificationErrors ==
    {ErrMemoryDeclarationMissing, ErrIllegalImport, ErrProtectedExport}

NoWasmInstance == [contract |-> "none", from |-> "none", verified |-> FALSE]

\* The validator's three checks, in the order VerifyContractCode calls them.
verifyMemoryDeclaration(contract) ==
    IF contract = "noMemory" THEN ErrMemoryDeclarationMissing ELSE NoError

verifyFunctions(contract) ==
    IF contract = "illegalImport" THEN ErrIllegalImport ELSE NoError

verifyProtectedFunctions(contract) ==
    IF contract = "protectedExport" THEN ErrProtectedExport ELSE NoError

\* A verification that finds nothing.
VerifyNothing(flag, contract) == [ran |-> flag, err |-> NoError]

\* VerifyContractCode (part_005:1398-1426): nothing is checked unless the
\* verifyCode flag is set; the flag is cleared by the verification.
VerifyContractCode(flag, contract) ==
    IF ~flag THEN [ran |-> FALSE, err |-> NoError]
    ELSE IF verifyMemoryDeclaration(contract) # NoError
         THEN [ran |-> TRUE, err |-> verifyMemoryDeclaration(contract)]
    ELSE IF verifyFunctions(contract) # NoError
         THEN [ran |-> TRUE, err |-> verifyFunctions(contract)]
    ELSE [ran |-> TRUE, err |-> verifyProtectedFunctions(contract)]

NoWasmStart ==
    [called |-> FALSE, contract |-> "none", newCode |-> FALSE,
     verifyCode |-> FALSE, cacheOk |-> FALSE, from |-> "none",
     err |-> NoError, verified |-> FALSE, saved |-> FALSE]

\* MustVerifyNextContractCode (part_005:1076-1079).
MustVerifyNextContractCode ==
    /\ verifyCode' = TRUE
    /\ UNCHANGED <<codeInstance, compiledCode, lastStart, memVars, instVars,
                   asyncCtxVars, chainVars, cbVars, stackVars, storageVars,
                   hostVars, gasVars>>

\* StartWasmerInstance (part_005:945-961) with makeInstanceFromCompiledCode
\* (963-999), makeInstanceFromContractByteCode (1001-1046) and
\* saveCompiledCode (1065-1074). hashKnown: the account of the contract has
\* a code hash; compiledOk, builderOk, sha256Ok, cacheOk: the builder made
\* an instance of the compiled code, of the bytecode, the hasher and
\* instance.Cache returned no error.
StartWasmerInstance(contract, newCode, hashKnown, compiledOk, builderOk, sha256Ok, cacheOk) ==
    LET codeHash == IF hashKnown THEN Sha256(contract) ELSE EmptyCodeHash
        start == [called |-> TRUE, contract |-> contract, newCode |-> newCode,
                  verifyCode |-> verifyCode, cacheOk |-> cacheOk,
                  from |-> "none", err |-> NoError, verified |-> FALSE,
                  saved |-> FALSE]
        compiledCodeUsed ==
            /\ ~(newCode \/ codeHash = EmptyCodeHash)
            /\ codeHash \in compiledCode
            /\ compiledOk
        verification == VerifyContractCode(verifyCode, contract)
    IN  /\ RunningInstancesCount(instStack) < MaximumWasmerInstanceCount
        /\ IF compiledCodeUsed
           THEN /\ codeInstance' = [contract |-> contract, from |-> "compiled",
                                    verified |-> FALSE]
                /\ verifyCode' = FALSE
                /\ lastStart' = [start EXCEPT !.from = "compiled"]
                /\ UNCHANGED compiledCode
           ELSE IF ~builderOk
           THEN /\ codeInstance' = NoWasmInstance
                /\ lastStart' = [start EXCEPT !.err = "builder error"]
                /\ UNCHANGED <<verifyCode, compiledCode>>
           ELSE IF (newCode \/ codeHash = EmptyCodeHash) /\ ~sha256Ok
           THEN /\ codeInstance' = NoWasmInstance
                /\ lastStart' = [start EXCEPT !.from = "bytecode",
                                              !.err = "sha256 error"]
                /\ UNCHANGED <<verifyCode, compiledCode>>
           ELSE IF newCode /\ verification.err # NoError
           THEN /\ codeInstance' = NoWasmInstance
                /\ verifyCode' = FALSE
                /\ lastStart' = [start EXCEPT !.from = "bytecode",
                                              !.err = verification.err,
                                              !.verified = TRUE]
                /\ UNCHANGED compiledCode
           ELSE /\ codeInstance' =
                     [contract |-> contract, from |-> "bytecode",
                      verified |-> newCode /\ verification.ran]
                /\ verifyCode' = IF newCode THEN FALSE ELSE verifyCode
                /\ compiledCode' =
                     IF cacheOk THEN compiledCode \cup {Sha256(contract)}
                     ELSE compiledCode
                /\ lastStart' = [start EXCEPT !.from = "bytecode",
                                              !.verified = newCode /\ verification.ran,
                                              !.saved = cacheOk]
        /\ UNCHANGED <<memVars, instVars, asyncCtxVars, chainVars, cbVars,
                       stackVars, storageVars, hostVars, gasVars>>

\* CleanInstance (part_005:1499-1508) at the end of a run.
CleanWasmInstance ==
    /\ codeInstance # NoWasmInstance
    /\ codeInstance' = NoWasmInstance
    /\ UNCHANGED <<verifyCode, compiledCode, lastStart, memVars, instVars,
                   asyncCtxVars, chainVars, cbVars, stackVars, storageVars,
                   hostVars, gasVars>>

CompileInit ==
    /\ verifyCode = FALSE
    /\ codeInstance = NoWasmInstance
    /\ compiledCode = {}
    /\ lastStart = NoWasmStart

CompileIdle == CompileInit

CompileNext ==
    \/ MustVerifyNextContractCode
    \/ \E contract \in Contracts, newCode, hashKnown, compiledOk, builderOk,
          sha256Ok, cacheOk \in BOOLEAN :
          StartWasmerInstance(contract, newCode, hashKnown, compiledOk,
                              builderOk, sha256Ok, cacheOk)
    \/ CleanWasmInstance


ExtIdle ==
    MemIdle /\ InstIdle /\ AsyncCtxIdle /\ ChainIdle /\ CbIdle /\ CompileIdle

(***************************************************************************)
(* The specifications.                                                     *)
(***************************************************************************)
\* No call is metered while the dispatcher is observed.
GasIdle ==
    /\ gasProvided = 0
    /\ frames = <<>>
    /\ outputAccounts = NoAccounts
    /\ outputTransfers = <<>>
    /\ asyncCalls = <<>>
    /\ asyncPc = "done"
    /\ gasVMOutput = NoVMOutput

\* A top-level call to the parent contract with some gas-provided.
GasInit ==
    /\ HostInit
    /\ StackIdle
    /\ StorageIdle
    /\ ExtIdle
    /\ gasProvided \in 1..MaxGasProvided
    /\ frames = <<[addr |-> "parent", callType |-> "direct",
                   gasProvided |-> gasProvided, vmInputGas |-> gasProvided,
                   pointsUsed |-> 0, savedAccounts |-> NoAccounts,
                   savedTransfers |-> <<>>]>>
    /\ outputAccounts = NoAccounts
    /\ outputTransfers = <<>>
    /\ asyncCalls = <<>>
    /\ asyncPc = "exec"
    /\ gasVMOutput = NoVMOutput

GasNext ==
    \/ \E n \in 1..MaxGasProvided : ContractUseGas(n)
    \/ \E a \in Accounts, g \in 1..MaxGasProvided : ExecuteOnDestContext(a, g)
    \/ \E a \in Accounts, g \in 1..MaxGasProvided : ExecuteOnSameContext(a, g)
    \/ \E g \in 1..MaxGasProvided : TransferValueExecute(g)
    \/ \E providedGas \in {0, 2 * AsyncCallStep + 2}, remote \in BOOLEAN,
          gasLocked \in {0, AsyncCallStep} :
            RegisterAsyncCall(providedGas, remote, gasLocked)
    \/ \E ok \in BOOLEAN : NestedCallReturns(ok)
    \/ TopFrameReturns
    \/ \E code \in {"UserError", "OutOfGas", "ExecutionFailed"} : TopFrameFails(code)
    \/ ProcessAsyncContext
    \/ ProcessAsyncCall
    \/ \E ok \in BOOLEAN : AsyncDestinationReturns(ok)
    \/ \E ok \in BOOLEAN : CallbackReturns(ok)
    \/ SendPendingAsyncCalls

Init == HostInit /\ GasIdle /\ StackIdle /\ StorageIdle /\ ExtIdle

Next == HostNext

Spec == Init /\ [][Next]_vars

\* The scheduling of the host: a goroutine that can take its next step takes
\* it, and a contract execution that is not interrupted reaches its end.
\* The deadline of a run, a panic of the worker, the blocks a contract
\* executes and the arrival of new calls are left to the environment.
HostFairness ==
    /\ WF_vars(AdminLock)
    /\ WF_vars(Close)
    /\ WF_vars(Reset)
    /\ WF_vars(\E newGasSchedule \in GasScheduleMaps :
                  GasScheduleChange(newGasSchedule))
    /\ \A c \in Callers :
          /\ WF_vars(RunRefused(c) \/ RunStartWorker(c) \/ RunSelectDone(c)
                        \/ RunSelectPanic(c) \/ RunFailTimeout(c)
                        \/ RunAwaitDone(c) \/ RunFailPanic(c))
          /\ WF_vars(WorkerStart(c) \/ WorkerCloseDone(c))

FairSpec == Init /\ [][Next]_vars /\ HostFairness

GasSpec == GasInit /\ [][GasNext]_vars

StackSpecInit == HostInit /\ GasIdle /\ StackInit /\ StorageIdle /\ ExtIdle

StackSpec == StackSpecInit /\ [][StackNext]_vars

\* The storage context at the start of a frame, under either gas policy.
StorageInit ==
    /\ HostInit
    /\ GasIdle
    /\ StackInit
    /\ ExtIdle
    /\ storageUpdates = [a \in Addresses |-> [k \in Keys |-> NoUpdate]]
    /\ meter = [gasProvided |-> MaxStorageGas, pointsUsed |-> 0]
    /\ refund = 0
    /\ storageResult = [op |-> "none", address |-> "", key |-> <<>>, value |-> <<>>,
                        status |-> StorageUnchanged, err |-> "", oldValue |-> <<>>,
                        readOnly |-> FALSE]
    /\ writtenBy = [a \in Addresses |-> [k \in Keys |-> "none"]]
    /\ storageOps = 0
    /\ valueTransfers = <<>>
    /\ flagUseDifferentGasCostForReadingCachedStorage \in BOOLEAN

StorageSpec == StorageInit /\ [][StorageNext]_vars

ReservedKeySpec == StorageInit /\ [][ReservedKeyNext]_vars

\* The loads of one instance, whatever its memory.
MemSpecInit ==
    /\ HostInit
    /\ GasIdle
    /\ StackIdle
    /\ StorageIdle
    /\ MemInit
    /\ InstIdle
    /\ AsyncCtxIdle
    /\ ChainIdle
    /\ CbIdle
    /\ CompileIdle

MemSpec == MemSpecInit /\ [][MemNext]_vars

\* The instances of a host over its runs.
InstanceSpecInit ==
    /\ HostInit
    /\ GasIdle
    /\ StackIdle
    /\ StorageIdle
    /\ MemIdle
    /\ InstIdle
    /\ AsyncCtxIdle
    /\ ChainIdle
    /\ CbIdle
    /\ CompileIdle

InstanceSpec == InstanceSpecInit /\ [][InstNext]_vars

\* The async context of one call and the callbacks that come back for it.
AsyncSpecInit ==
    /\ HostInit
    /\ GasIdle
    /\ StackIdle
    /\ StorageIdle
    /\ MemIdle
    /\ InstIdle
    /\ AsyncCtxInit
    /\ ChainIdle
    /\ CbIdle
    /\ CompileIdle

AsyncSpec == AsyncSpecInit /\ [][AsyncCtxNext]_vars

\* A chain of async contexts whose children finish one after another.
ChainSpecInit ==
    /\ HostInit
    /\ GasIdle
    /\ StackIdle
    /\ StorageIdle
    /\ MemIdle
    /\ InstIdle
    /\ AsyncCtxIdle
    /\ ChainInit
    /\ CbIdle
    /\ CompileIdle

ChainSpec == ChainSpecInit /\ [][ChainNext]_vars

\* The callback of one async call whose destination call has returned.
CallbackSpecInit ==
    /\ HostInit
    /\ GasIdle
    /\ StackIdle
    /\ StorageIdle
    /\ MemIdle
    /\ InstIdle
    /\ AsyncCtxIdle
    /\ ChainIdle
    /\ CbInit
    /\ CompileIdle

CallbackSpec == CallbackSpecInit /\ [][CbNext]_vars

\* The instances a runtime context makes for the contracts it is given.
CompileSpecInit ==
    /\ HostInit
    /\ GasIdle
    /\ StackIdle
    /\ StorageIdle
    /\ MemIdle
    /\ InstIdle
    /\ AsyncCtxIdle
    /\ ChainIdle
    /\ CbIdle
    /\ CompileInit

CompileSpec == CompileSpecInit /\ [][CompileNext]_vars


(***************************************************************************)
(* Properties of the host specification.                                   *)
(***************************************************************************)
Returned(c) == result[c].how = "returned"

\* C2: when the worker of RunSmartContractCall or RunSmartContractCreate
\* panics, no panic escapes the host: no invocation ends by panicking into its
\* caller, and an invocation that ends with the execution-panicked error has
\* returned normally.
C2_PanicNeverEscapes ==
    \A c \in Callers :
        /\ result[c].how # "panic"
        /\ result[c].err = ErrExecutionPanicked => Returned(c)

\* C3: every invocation of RunSmartContractCall eventually returns to its
\* caller.  Stated so that a finite run refutes it: an invocation that has not
\* returned yet is never stuck, that is, its host goroutine or its worker can
\* always take a step.
C3_RunNeverStuck ==
    \A c \in Callers : HoldsRLock(c) => ENABLED (HostStep(c) \/ WorkerStep(c))

\* C4: a call whose execution was in progress when the deadline elapsed
\* returns the timeout error and a failed output: return code execution-failed,
\* return message "execution failed with timeout", gas-remaining 0 and no
\* account effects.
C4_TimeoutYieldsFailedOutput ==
    \A c \in Callers :
        (Returned(c) /\ result[c].atTimeout) =>
            /\ result[c].err = ErrExecutionFailedWithTimeout
            /\ ~result[c].out.isNil
            /\ result[c].out.returnCode = "ExecutionFailed"
            /\ result[c].out.returnMessage = "execution failed with timeout"
            /\ result[c].out.gasRemaining = 0
            /\ result[c].out.accounts = 0

\* C5: on one host at most one execution worker is active at any time.
C5_AtMostOneWorker ==
    Cardinality({c \in Callers : wpc[c] \in WorkerActive}) <= 1

\* C6: the contexts are mutated by the execution worker only: the host
\* goroutine of a run never stands inside runtimeContext.FailExecution, which
\* writes the Runtime and Output contexts, while the worker of that run is
\* still executing.
C6_ContextsMutatedByWorkerOnly ==
    \A c \in Callers : ~(pc[c] = "fail" /\ wpc[c] \in WorkerActive)

\* C7: Close, Reset and GasScheduleChange hold the host lock exclusively:
\* while one of them executes its body no invocation is between RLock and
\* RUnlock (so none passes RLock either), and the writer side of the lock is
\* never held together with a reader side.
C7_AdminExclusive ==
    /\ admin.pc = "body" => \A c \in Callers : ~HoldsRLock(c)
    /\ admin.pc = "body" <=> mutExecution.writer
    /\ mutExecution.writer => mutExecution.readers = 0
    /\ mutExecution.readers = Cardinality({c \in Callers : HoldsRLock(c)})

\* An administrative operation executes its body after an invocation has run a
\* worker and released the lock, while the other invocation has not entered.
C7_Witness ==
    /\ admin.pc = "body"
    /\ \E c \in Callers : Returned(c) /\ ~result[c].out.isNil
    /\ \E c \in Callers : pc[c] = "idle"

\* C8: no run observes a torn configuration: whenever an invocation holds the
\* shared lock, the host's gas schedule, the metering context's gas schedule
\* and the opcode costs belong to one and the same gas schedule.
C8_NoTornConfiguration ==
    (\E c \in Callers : HoldsRLock(c)) =>
        /\ gasSchedule = meteringSchedule
        /\ opcodeCosts = CreateGasConfig(gasSchedule).cfg

\* C9: when the deadline elapses the host marks the runtime as failed (return
\* code execution-failed, the timeout error recorded) and sets the
\* execution-failed breakpoint on the instance, if there is one; it returns
\* only after the worker has closed done; and no step of the host goroutine on
\* the timeout path ends a worker that is still executing.
C9_TimeoutStep(c) ==
    /\ (pc[c] = "fail" /\ pc'[c] = "waitDone") =>
          /\ output'.returnCode = "ExecutionFailed"
          /\ ErrExecutionFailedWithTimeout \in rtErrors'
          /\ instance # "nil" => breakpoint' = BreakpointExecutionFailed
    /\ (pc[c] = "waitDone" /\ pc'[c] # "waitDone") => done[c]
    /\ (Returned(c)' /\ result'[c].err = ErrExecutionFailedWithTimeout /\ ~Returned(c))
          => done[c]
    /\ (err'[c] = ErrExecutionFailedWithTimeout /\ wpc[c] \in WorkerActive
          /\ pc'[c] # pc[c]) => wpc'[c] = wpc[c]

C9_CooperativeTimeout == [][\A c \in Callers : C9_TimeoutStep(c)]_vars

\* An invocation has returned the timeout error after the deadline elapsed
\* while its worker was executing.
C9_Witness ==
    \E c \in Callers :
        /\ Returned(c)
        /\ result[c].err = ErrExecutionFailedWithTimeout
        /\ result[c].atTimeout

\* C10: once Close has completed the host stays closing, and every invocation
\* that finds it closing is refused with the VM-closing error and a nil output,
\* without starting a worker or touching the contexts; only Close, never Reset,
\* puts the host into the closing state.
C10_RefusalStep(c) ==
    (pc[c] = "locked" /\ closingInstance /\ pc'[c] # "locked") =>
        /\ pc'[c] = "left"
        /\ Returned(c)'
        /\ result'[c].out = NilOutput
        /\ result'[c].err = ErrVMIsClosing
        /\ wpc[c] = "none" /\ wpc'[c] = "none"
        /\ UNCHANGED contextVars

C10_ClosingStep ==
    /\ closingInstance => closingInstance'
    /\ (~closingInstance /\ closingInstance') => admin.op = "Close"
    /\ (admin.op = "Reset" /\ admin.pc = "body" /\ admin'.pc = "idle")
          => closingInstance' = closingInstance

C10_RefusedAfterClose ==
    [][C10_ClosingStep /\ \A c \in Callers : C10_RefusalStep(c)]_vars

\* After Close has completed an invocation was refused with the VM-closing
\* error and a nil output.
C10_Witness ==
    \E c \in Callers :
        /\ closingInstance
        /\ Returned(c)
        /\ result[c].err = ErrVMIsClosing
        /\ result[c].out.isNil

C11_EqualStackDepths ==
    \A c \in ContextNames \cup {"instances"} :
        StackDepths[c] = StackDepths["runtime"]

\* C12: PopSetActiveState gives back what was observable when the matching
\* PushState was made (the runtime frame and its instance, the storage address,
\* the world state behind the hook), and the depth of every stack is again what
\* it was before that PushState.
C12_PushPopIdentity ==
    [][(PopSetActiveState /\ pushed # <<>>) =>
          /\ Observable' = Top(pushed).observable
          /\ StackDepths' = Top(pushed).depths]_vars

\* A nested frame that differs from the saved one in the runtime frame, in the
\* instance, in the storage address and in the world state.
C12_Witness ==
    /\ pushed # <<>>
    /\ runtime.vmInput # Top(pushed).observable.runtime.vmInput
    /\ runtime.instance # Top(pushed).observable.runtime.instance
    /\ runtime.readOnly # Top(pushed).observable.runtime.readOnly
    /\ storageAddress # Top(pushed).observable.storageAddress
    /\ blockchainHook.state # Top(pushed).observable.blockchain
    /\ ENABLED PopSetActiveState

(***************************************************************************)
(* Properties of the storage context.                                      *)
(***************************************************************************)
\* C13: in the storage-update map of every account, an entry has Written set
\* exactly when a write changed the value under its key; an entry that only
\* caches a read has Written clear.
C13_WrittenIffRealWrite ==
    \A a \in Addresses, k \in Keys :
        storageUpdates[a][k].present =>
            (storageUpdates[a][k].Written <=> writtenBy[a][k] # "none")

\* An account's map holds a written entry next to an entry that caches a read.
C13_Witness ==
    \E a \in Addresses, k1, k2 \in Keys :
        /\ storageUpdates[a][k1].present /\ storageUpdates[a][k1].Written
        /\ storageUpdates[a][k2].present /\ ~storageUpdates[a][k2].Written

\* C14: SetStorage leaves every entry under a key with the reserved prefix or
\* the protected prefix as it was; no entry under a reserved key is ever
\* written, and an entry under a protected key is written only by
\* SetProtectedStorage or SetProtectedStorageToAddress.
C14_PrefixesKeptFromContracts ==
    [][\A a \in Addresses, k \in Keys :
          LET before == storageUpdates[a][k]
              after == storageUpdates'[a][k]
              reserved == HasPrefix(k, ElrondReservedPrefix)
              protected == HasPrefix(k, ProtectedStoragePrefix)
          IN /\ (storageOps' # storageOps /\ storageResult'.op = "SetStorage"
                   /\ (reserved \/ protected)) => after = before
             /\ (reserved /\ ~protected) => ~after.Written
             /\ (protected /\ after.Written /\ after # before) =>
                   storageResult'.op \in {"SetProtectedStorage",
                                          "SetProtectedStorageToAddress"}]_vars

\* SetStorage was refused on a protected key that SetProtectedStorage had
\* written.
C14_Witness ==
    /\ storageResult.op = "SetStorage"
    /\ HasPrefix(storageResult.key, ProtectedStoragePrefix)
    /\ storageResult.err = ErrCannotWriteProtectedKey
    /\ storageUpdates[storageResult.address][storageResult.key].Written
    /\ writtenBy[storageResult.address][storageResult.key] = "SetProtectedStorage"

\* C15: while the frame is read-only no step sets Written on an entry of a
\* storage-update map, a write reports StorageUnchanged without an error, and no
\* transfer of a non-zero value is made.
C15_ReadOnlyProducesNothing ==
    [][runtime.readOnly =>
          /\ \A a \in Addresses, k \in Keys :
                storageUpdates'[a][k].Written => storageUpdates[a][k].Written
          /\ (storageOps' # storageOps /\ storageResult'.op # "GetStorage") =>
                (storageResult'.status = StorageUnchanged /\ storageResult'.err = "")
          /\ \A i \in DOMAIN valueTransfers' :
                i > Len(valueTransfers) => valueTransfers'[i].value = 0]_vars

\* The value a read of the key finds before a step.
ValueBefore(a, k) ==
    IF storageUpdates[a][k].present THEN storageUpdates[a][k].Data
    ELSE GetStorageData(a, k)

\* A GetStorage of the key that the call before it, a SetStorage of the same
\* frame, was made on.
C16_GetAfterSet ==
    /\ storageResult.op = "SetStorage"
    /\ storageOps' # storageOps
    /\ storageResult'.op = "GetStorage"
    /\ storageResult'.address = storageResult.address
    /\ storageResult'.key = storageResult.key

\* C16 as stated: for a key without the reserved prefix, the GetStorage that
\* follows a SetStorage of the key returns the value that was set.
C16_SetThenGetAnyKey ==
    [][(C16_GetAfterSet /\ ~HasPrefix(storageResult.key, ElrondReservedPrefix)) =>
          storageResult'.value = storageResult.value]_vars

\* C16, amended: when the frame is not read-only and SetStorage returns no
\* error, the GetStorage that follows it on the same key returns the value that
\* was set.
C16_SetThenGet ==
    [][(C16_GetAfterSet /\ ~storageResult.readOnly /\ storageResult.err = "") =>
          storageResult'.value = storageResult.value]_vars

\* A GetStorage has returned the value a SetStorage put in place of another one.
C16_Witness ==
    /\ storageResult.op = "GetStorage"
    /\ storageUpdates[storageResult.address][storageResult.key].Written
    /\ writtenBy[storageResult.address][storageResult.key] = "SetStorage"
    /\ storageResult.value = storageUpdates[storageResult.address][storageResult.key].Data
    /\ storageResult.value # GetStorageData(storageResult.address, storageResult.key)

C18_LocalCallEndsWithCallback ==
    /\ \A i \in DOMAIN asyncCalls :
          (~asyncCalls[i].remote /\ asyncCalls[i].Status = "rejected") =>
              asyncCalls[i].Callback = "ErrorCallback"
    /\ (/\ asyncPc = "done"
        /\ \A i \in DOMAIN asyncCalls :
              ~asyncCalls[i].remote /\ asyncCalls[i].Status = "resolved") =>
          savePendingAsyncCalls = <<>>

\* C19: when the processing of the async calls has ended and a call was
\* rejected, no call this host can execute is left unprocessed.
C19_FailureDoesNotAbortOthers ==
    (/\ asyncPc = "done"
     /\ \E i \in DOMAIN asyncCalls : asyncCalls[i].Status = "rejected") =>
        \A j \in DOMAIN asyncCalls : ~IsLocalPending(asyncCalls[j])

\* The gas set-up of these calls fails: the gas they ask for exceeds the gas
\* left, or it leaves nothing for the calls that ask for a share.
C20_NotEnoughGas(calls) ==
    \/ SumProvidedGas(calls) > GasLeft(TopFrame)
    \/ /\ \E i \in DOMAIN calls : calls[i].ProvidedGas = 0
       /\ GasLeft(TopFrame) <= SumProvidedGas(calls)

\* C20: when the gas set-up of processAsyncContext fails, before the local
\* calls or before the pending calls are sent, the step ends the call: the
\* frame fails with not-enough-gas, no async call is executed or sent after it
\* and the output has no transfer.
C20_GasSetupFailureAborts ==
    [][(\/ asyncPc = "setup" /\ C20_NotEnoughGas(asyncCalls)
        \/ /\ asyncPc = "local"
           /\ \A i \in DOMAIN asyncCalls : ~IsLocalPending(asyncCalls[i])
           /\ SelectSeq(asyncCalls, IsPending) # <<>>
           /\ C20_NotEnoughGas(SelectSeq(asyncCalls, IsPending))) =>
          /\ asyncPc' = "done"
          /\ gasVMOutput'.returnCode = ErrNotEnoughGas
          /\ gasVMOutput'.transfers = <<>>
          /\ outputTransfers' = <<>>
          /\ asyncCalls' = asyncCalls
          /\ Len(frames') = 1]_vars

\* The call has ended with not-enough-gas at the gas set-up: no async call was
\* executed, and the calls ask for more gas than the frame has left.
C20_Witness ==
    /\ asyncPc = "done"
    /\ gasVMOutput.returnCode = ErrNotEnoughGas
    /\ asyncCalls # <<>>
    /\ \A i \in DOMAIN asyncCalls : asyncCalls[i].Status = "pending"
    /\ SumProvidedGas(asyncCalls) > GasLeft(TopFrame)

(***************************************************************************)
(* The linear memory.                                                      *)
(***************************************************************************)
\* The bytes a load of `length` bytes at `offset` is to return: those of the
\* memory, and zero beyond its end.
ZeroPadded(offset, length) ==
    [i \in 1..length |-> IF offset + i <= Len(memory) THEN memory[offset + i] ELSE 0]

\* C24, as stated: MemLoad fails for a negative offset or a negative length,
\* succeeds with the empty byte string when length is 0, returns exactly
\* `length` bytes, zero beyond the memory, when the requested end lies beyond
\* the memory, and never reads outside of the memory.
C24_MemLoadAsStated ==
    memLoad.called =>
        /\ (memLoad.offset < 0 \/ memLoad.length < 0) => memLoad.err # NoError
        /\ memLoad.length = 0 => memLoad.err = NoError /\ memLoad.data = <<>>
        /\ (memLoad.offset >= 0 /\ memLoad.length > 0
              /\ memLoad.offset + memLoad.length > Len(memory)) =>
                 /\ memLoad.err = NoError
                 /\ memLoad.data = ZeroPadded(memLoad.offset, memLoad.length)
        /\ ~memLoad.panic

\* C24, amended: a load of length 0 succeeds with the empty byte string at
\* any offset, a negative one included, on any memory, and uses no gas; a load
\* of another length fails with bad-bounds when the offset is negative or
\* beyond the end of the memory, and otherwise with negative-length when the
\* length is negative; every other load returns exactly `length` bytes, those
\* of the memory and zero beyond its end, and the slice it reads lies within
\* the memory.
C24_MemLoad ==
    memLoad.called =>
        LET offset == memLoad.offset
            length == memLoad.length
            inside == 0 <= offset /\ offset <= Len(memory)
        IN  /\ ~memLoad.panic
            /\ 0 <= memLoad.lo /\ memLoad.lo <= memLoad.hi /\ memLoad.hi <= Len(memory)
            /\ meter.pointsUsed = 0
            /\ length = 0 => memLoad.err = NoError /\ memLoad.data = <<>>
            /\ (length # 0 /\ ~inside) => memLoad.err = ErrBadBounds
            /\ (length < 0 /\ inside) => memLoad.err = ErrNegativeLength
            /\ (length > 0 /\ inside) =>
                  /\ memLoad.err = NoError
                  /\ memLoad.data = ZeroPadded(offset, length)

\* A load that starts inside a memory and ends beyond it.
C24_Witness ==
    /\ memLoad.called
    /\ memLoad.err = NoError
    /\ memLoad.offset < Len(memory)
    /\ memLoad.offset + memLoad.length > Len(memory)
    /\ Len(memLoad.data) = memLoad.length
    /\ memLoad.data[1] # 0
    /\ memLoad.data[memLoad.length] = 0

ExecutedIds == {executed[n] : n \in DOMAIN executed}

\* The calls that the storage is to keep when the processing has succeeded.
PendingGroups == getPendingAsyncCalls(asyncContext)

\* The value stored under the async-data key of the call's original tx-hash.
StoredContext == asyncStorage[CustomStorageKey(AsyncDataPrefix, originalTxHash)]

IsLocalContract(dest) == SameShard(dest) /\ Len(UserAccounts[dest]) > 0

\* The callback of the call has been executed and has failed.
CallbackFailed(call) ==
    call.Status = "resolved" /\ <<"callback", call.id>> \notin effects

RECURSIVE FirstOccurrences(_)
\* The elements of a sequence in the order of their first occurrence.
FirstOccurrences(seq) ==
    IF seq = <<>> THEN <<>>
    ELSE LET rest == FirstOccurrences(SubSeq(seq, 1, Len(seq) - 1))
             last == seq[Len(seq)]
         IN  IF \E n \in DOMAIN rest : rest[n] = last THEN rest ELSE Append(rest, last)

\* The ids of the calls, group by group in the order the groups were
\* registered, and in the order of registration within a group.
RegistrationOrder ==
    LET at == GroupCalls(asyncContext, FirstOccurrences(registered), 1)
    IN  [n \in DOMAIN at |-> asyncContext[at[n][1]][at[n][2]].id]

\* C22: the calls of a group are processed in registration order and the
\* groups in registration order: the return data lists the result of each
\* executed call, followed by that of its callback, in that order.
C22_RegistrationOrder ==
    asyncPhase = "processed" =>
        /\ executed = SelectSeq(RegistrationOrder, LAMBDA id : id \in ExecutedIds)
        /\ \A n \in DOMAIN returnData :
              returnData[n][1] = "callback" =>
                 /\ n > 1
                 /\ returnData[n - 1][1] = "result"
                 /\ returnData[n - 1][2] = returnData[n][2]

\* C25: a cross-shard callback that is expected removes its call from the
\* persisted context: when groups remain, the reduced context is stored under
\* the same key, and otherwise the entry is cleared.
C25_ReducedContextPersisted ==
    \A n \in DOMAIN callbacksReceived :
        (n = Len(callbacksReceived) /\ callbacksReceived[n].err = NoError) =>
            LET entry == asyncStorage[CustomStorageKey(AsyncDataPrefix,
                                                       callbacksReceived[n].txHash)]
                remaining == callbacksReceived[n].remaining
            IN  IF DOMAIN remaining # {}
                THEN Len(entry) > 0 /\ Unmarshal(entry) = remaining
                ELSE Len(entry) = 0

\* C26: with N pending remote calls persisted, the entry is cleared and the
\* callback of the original caller triggered exactly once when the callbacks
\* of all N destinations have been processed; before that the entry is there
\* and the callback has not been triggered.
C26_LastCallbackCompletes ==
    (/\ asyncPhase = "processed"
     /\ DOMAIN PendingGroups # {}
     /\ \A call \in AllCalls(PendingGroups) : ~SameShard(call.Destination)
     /\ \A c1, c2 \in AllCalls(PendingGroups) :
           c1.id # c2.id => c1.Destination # c2.Destination) =>
        LET answered == {callbacksReceived[n].caller :
                            n \in {m \in DOMAIN callbacksReceived :
                                     /\ callbacksReceived[m].txHash = originalTxHash
                                     /\ callbacksReceived[m].err = NoError}}
        IN  IF \A call \in AllCalls(PendingGroups) : call.Destination \in answered
            THEN Len(StoredContext) = 0 /\ callbackTriggers = 1
            ELSE Len(StoredContext) > 0 /\ callbackTriggers = 0

TransfersOf(call) ==
    SelectSeq(asyncTransfers,
              LAMBDA t : t.callType = "AsynchronousCall" /\ t.id = call.id)

\* C29: after the processing has succeeded, the output has exactly one
\* transfer of kind asynchronous-call, to its destination, for each pending
\* call that was not executed locally, and none for a call executed locally.
C29_OneTransferPerRemoteCall ==
    asyncPhase = "processed" =>
        /\ \A call \in AllCalls(asyncContext) :
              /\ Len(TransfersOf(call)) =
                    IF call.Status = "pending" /\ call.id \notin ExecutedIds
                    THEN 1 ELSE 0
              /\ \A n \in DOMAIN TransfersOf(call) :
                    TransfersOf(call)[n].destination = call.Destination
        /\ \A n \in DOMAIN asyncTransfers :
              asyncTransfers[n].callType = "AsynchronousCall" =>
                 \E call \in AllCalls(asyncContext) : call.id = asyncTransfers[n].id

\* A local call was executed and a remote call was sent.
C29_Witness ==
    /\ asyncPhase = "processed"
    /\ Len(executed) = 1
    /\ Len(asyncTransfers) = 1
    /\ asyncTransfers[1].callType = "AsynchronousCall"
    /\ ~SameShard(asyncTransfers[1].destination)
    /\ asyncTransfers[1].id \notin ExecutedIds

Visited(i) == lastNotify[i]

\* The visit counted the child, took its gas and removed its call.
ChildCounted(i) ==
    LET v == Visited(i)
    IN  /\ v.after.callsCounter = v.before.callsCounter - 1
        /\ v.after.gasAccumulated = v.before.gasAccumulated + v.gas
        /\ v.callID # NilCallID => /\ v.callID \in v.before.calls
                                   /\ v.callID \notin v.after.calls
        /\ v.after.calls = v.before.calls \ {v.callID}

LeftComplete(i) ==
    Visited(i).after.callsCounter = 0 /\ Visited(i).after.calls = {}

\* The visit was the last one of the notification.
NothingPropagated(i) == i = Len(lastNotify)

\* The next visit of the notification is the one of the parent context.
PropagatedToParent(i) ==
    /\ i < Len(lastNotify)
    /\ Visited(i + 1).ctx = Visited(i).ctx - 1

\* The context of the visit was saved as the visit left it.
SavedAsLeft(i) ==
    /\ chainContexts[Visited(i).ctx] = Visited(i).after
    /\ chainContexts[Visited(i).ctx].persisted

\* C27, as stated: every context a notification visits counts the child,
\* accumulates the gas and deletes the recorded call; a context left complete
\* is deleted from storage and, unless it is the one of the first call, its
\* parent is visited next; a context left incomplete is saved and is the last
\* one visited.
C27_ChainCompletionAsStated ==
    \A i \in DOMAIN lastNotify :
        Visited(i).err = NoError =>
            /\ ChildCounted(i)
            /\ LeftComplete(i) =>
                 /\ ~chainContexts[Visited(i).ctx].persisted
                 /\ IF Visited(i).ctx = 1
                    THEN NothingPropagated(i)
                    ELSE PropagatedToParent(i)
            /\ ~LeftComplete(i) => SavedAsLeft(i) /\ NothingPropagated(i)

\* C27, amended: as above, but the completion of a context made by an
\* asynchronous call is propagated to the parent only when the callback run
\* for it is complete; when that callback leaves calls pending, the context
\* is deleted and nothing is propagated.
C27_ChainCompletion ==
    \A i \in DOMAIN lastNotify :
        Visited(i).err = NoError =>
            /\ ChildCounted(i)
            /\ LeftComplete(i) =>
                 /\ ~chainContexts[Visited(i).ctx].persisted
                 /\ IF Visited(i).ctx = 1
                    THEN NothingPropagated(i)
                    ELSE IF Visited(i).after.callType = "AsynchronousCall"
                            /\ ~Visited(i).callbackComplete
                    THEN NothingPropagated(i)
                    ELSE PropagatedToParent(i)
            /\ ~LeftComplete(i) => SavedAsLeft(i) /\ NothingPropagated(i)

\* A notification that started at the last context of the chain, removed the
\* recorded call of a remote child, went through the context of an
\* asynchronous call and ended by deleting the context of the first call.
C27_Witness ==
    /\ Len(lastNotify) = ChainDepth
    /\ \A i \in DOMAIN lastNotify : Visited(i).err = NoError /\ LeftComplete(i)
    /\ Visited(1).ctx = ChainDepth
    /\ Visited(1).callID = RemoteCallID
    /\ \E i \in DOMAIN lastNotify :
          Visited(i).after.callType = "AsynchronousCall"
    /\ Visited(ChainDepth).ctx = 1
    /\ ~chainContexts[1].persisted

(***************************************************************************)
(* Properties of the async gas set-up and of the local async calls.        *)
(***************************************************************************)
\* The gas limit the set-up is to give to call i of the calls.
SpecifiedOrShare(calls, gasLeft, i) ==
    IF calls[i].ProvidedGas # 0
    THEN calls[i].ProvidedGas
    ELSE (gasLeft - SumProvidedGas(calls)) \div CallsWithZeroGas(calls)

\* The step is the initial gas set-up of processAsyncContext.
InitialSetup == asyncPc = "setup"

\* The step is the set-up of the pending calls, before they are sent.
ReSplit ==
    /\ asyncPc = "local"
    /\ \A i \in DOMAIN asyncCalls : ~IsLocalPending(asyncCalls[i])
    /\ SelectSeq(asyncCalls, IsPending) # <<>>

PendingCalls == SelectSeq(asyncCalls, IsPending)

\* The step has failed the call with not-enough-gas.
FailsNotEnoughGas ==
    /\ asyncPc' = "done"
    /\ gasVMOutput'.returnCode = ErrNotEnoughGas

\* The transfers the step has appended to the output.
NewTransfers ==
    SubSeq(outputTransfers', Len(outputTransfers) + 1, Len(outputTransfers'))

\* The initial set-up has given every call its specified gas or the share.
InitialSetupAssigns ==
    /\ asyncPc' = "local"
    /\ DOMAIN asyncCalls' = DOMAIN asyncCalls
    /\ \A i \in DOMAIN asyncCalls :
          asyncCalls'[i].GasLimit =
              SpecifiedOrShare(asyncCalls, GasLeft(TopFrame), i)

\* The re-split has given every pending call its specified gas or the share:
\* unless the gas check at the end of the frame fails the call, the calls are
\* sent with these gas limits.
ReSplitAssigns ==
    /\ asyncPc' = "done"
    /\ gasVMOutput'.returnCode # ErrNotEnoughGas
    /\ gasVMOutput'.returnCode = "Ok" =>
          /\ Len(NewTransfers) = Len(PendingCalls)
          /\ \A i \in DOMAIN PendingCalls :
                NewTransfers[i].gasLimit =
                    SpecifiedOrShare(PendingCalls, GasLeft(TopFrame), i)

\* C31, as stated: a gas set-up fails with not-enough-gas if the specified gas
\* of the calls sums to more than gas-left; otherwise every call with
\* specified gas gets that amount and every call without gets the share
\* (gas-left - gas-needed) / number of calls without specified gas.
C31_GasSetupAsStated ==
    [][/\ InitialSetup =>
            IF SumProvidedGas(asyncCalls) > GasLeft(TopFrame)
            THEN FailsNotEnoughGas
            ELSE InitialSetupAssigns
       /\ ReSplit =>
            IF SumProvidedGas(PendingCalls) > GasLeft(TopFrame)
            THEN FailsNotEnoughGas
            ELSE ReSplitAssigns]_vars

\* C31, amended: the set-up also fails with not-enough-gas when some call has
\* no specified gas and the specified gas of the others sums to exactly
\* gas-left, so that nothing is left to share.
C31_GasSetup ==
    [][/\ InitialSetup =>
            IF C20_NotEnoughGas(asyncCalls)
            THEN FailsNotEnoughGas
            ELSE InitialSetupAssigns
       /\ ReSplit =>
            IF C20_NotEnoughGas(PendingCalls)
            THEN FailsNotEnoughGas
            ELSE ReSplitAssigns]_vars

\* The initial set-up has just succeeded on a call with specified gas and a
\* call without: the first has its specified gas, the second the share.
C31_Witness ==
    /\ asyncPc = "local"
    /\ Len(frames) = 1
    /\ Len(asyncCalls) = 2
    /\ \A i \in DOMAIN asyncCalls : asyncCalls[i].Status = "pending"
    /\ \E i, j \in DOMAIN asyncCalls :
          /\ asyncCalls[i].ProvidedGas # 0
          /\ asyncCalls[i].GasLimit = asyncCalls[i].ProvidedGas
          /\ asyncCalls[j].ProvidedGas = 0
          /\ asyncCalls[j].GasLimit > 0
          /\ asyncCalls[j].GasLimit =
                GasLeft(TopFrame) - asyncCalls[i].ProvidedGas

RECURSIVE SumTransferGasLimit(_)
SumTransferGasLimit(ts) ==
    IF ts = <<>> THEN 0 ELSE Head(ts).gasLimit + SumTransferGasLimit(Tail(ts))

\* C32: after a successful gas set-up, the initial one or the re-split before
\* the pending calls are sent, the gas limits of the calls of the context sum
\* to at most the gas left at that moment.
C32_SetupWithinGasLeft ==
    [][/\ (InitialSetup /\ asyncPc' = "local") =>
            SumGasLimit(asyncCalls') <= GasLeft(TopFrame)
       /\ (ReSplit /\ gasVMOutput'.returnCode = "Ok") =>
            SumTransferGasLimit(NewTransfers) <= GasLeft(TopFrame)]_vars

\* The initial set-up has just shared the gas left between two calls without
\* specified gas, a positive amount each.
C32_Witness ==
    /\ asyncPc = "local"
    /\ Len(frames) = 1
    /\ Len(asyncCalls) = 2
    /\ \A i \in DOMAIN asyncCalls :
          /\ asyncCalls[i].Status = "pending"
          /\ asyncCalls[i].ProvidedGas = 0
          /\ asyncCalls[i].GasLimit > 0
    /\ SumGasLimit(asyncCalls) <= GasLeft(TopFrame)

\* C33: a local async call whose gas limit does not exceed AsyncCallStep is
\* not executed on the destination: the step that is to execute it ends the
\* processing with not-enough-gas, without a nested frame and without handing
\* a missing input to the nested execution.
C33_NoExecutionWithoutInput ==
    [][(/\ asyncPc = "local"
        /\ \E i \in DOMAIN asyncCalls : IsLocalPending(asyncCalls[i])
        /\ asyncCalls[CurrentAsyncCall].GasLimit <= AsyncCallStep) =>
          /\ asyncPc' = "done"
          /\ gasVMOutput'.returnCode = ErrNotEnoughGas
          /\ Len(frames') = 1]_vars

(***************************************************************************)
(* Properties of the callback of a local async call.                       *)
(***************************************************************************)
DestinationOk == cbDestination.ReturnCode = "Ok"

\* The callback name callbackAsync is to choose.
ChosenCallback ==
    IF DestinationOk THEN cbCall.SuccessCallback ELSE cbCall.ErrorCallback

\* C34: the success callback is chosen if the destination returned Ok and the
\* error callback otherwise; if the chosen name is empty, no callback is
\* executed and callbackAsync returns without an error, the call keeping its
\* resolved or rejected status.
C34_CallbackChoice ==
    cbResult.called =>
        /\ cbCall.Status = (IF DestinationOk THEN "resolved" ELSE "rejected")
        /\ \A n \in DOMAIN cbResult.executed :
              cbResult.executed[n].Function = ChosenCallback
        /\ ChosenCallback = <<>> =>
              /\ cbResult.executed = <<>>
              /\ cbResult.err = NoError

\* The arguments of the callback: the status bytes, then the return data of a
\* successful destination or the return message of a failed one.
CallbackArguments ==
    IF DestinationOk
    THEN <<ReturnCodeBytes(cbDestination.ReturnCode)>> \o cbDestination.ReturnData
    ELSE <<ReturnCodeBytes(cbDestination.ReturnCode), cbDestination.ReturnMessage>>

\* C35, as stated: the callback input has the original contract as its
\* caller, the call kind asynchronous-callback, gas-provided = gas-remaining
\* of the destination - (AsyncCallStep + DataCopyPerByte * |return-data|),
\* and the arguments above.
C35_CallbackInputAsStated ==
    (cbResult.called /\ cbResult.input # NilInput) =>
        /\ cbResult.input.CallerAddr = "parent"
        /\ cbResult.input.CallType = "AsynchronousCallBack"
        /\ cbResult.input.GasProvided =
              cbDestination.GasRemaining
                 - (AsyncCallStep + DataCopyPerByte * SumLen(cbDestination.ReturnData))
        /\ cbResult.input.Arguments = CallbackArguments

\* The length of the call data "function@argument@argument...".
CallbackDataLength ==
    Len(ChosenCallback) + Len(CallbackArguments) + SumLen(CallbackArguments)

CallbackCost == AsyncCallStep + DataCopyPerByte * CallbackDataLength

\* C35, amended: the callback input has the destination of the async call as
\* its caller and the original contract as its recipient, the call kind
\* asynchronous-callback, the chosen callback as its function, the arguments
\* above, and gas-provided = gas-remaining - (AsyncCallStep + DataCopyPerByte
\* * length of the call data); it is built exactly when the gas-remaining
\* exceeds that cost, and otherwise the callback fails with not-enough-gas.
C35_CallbackInput ==
    cbResult.called =>
        IF cbDestination.GasRemaining <= CallbackCost
        THEN cbResult.input = NilInput /\ cbResult.err = ErrNotEnoughGas
        ELSE /\ cbResult.err = NoError
             /\ cbResult.input.CallerAddr = cbCall.Destination
             /\ cbResult.input.RecipientAddr = "parent"
             /\ cbResult.input.CallType = "AsynchronousCallBack"
             /\ cbResult.input.Function = ChosenCallback
             /\ cbResult.input.Arguments = CallbackArguments
             /\ cbResult.input.GasProvided =
                   cbDestination.GasRemaining - CallbackCost

\* The callback input of a successful destination that returned data, for a
\* named success callback, with gas left for the callback.
C35_Witness ==
    /\ cbResult.called
    /\ cbResult.input # NilInput
    /\ DestinationOk
    /\ cbCall.SuccessCallback # <<>>
    /\ SumLen(cbDestination.ReturnData) > 0
    /\ cbResult.input.GasProvided > 0
    /\ cbResult.input.Function = cbCall.SuccessCallback

(***************************************************************************)
(* Properties of the initialisation and of the pops of the runtime.        *)
(***************************************************************************)
\* C36: after initContexts the state stack of every context and the instance
\* stack of the runtime are empty and the current frame of the runtime has its
\* default data, whatever the state before.
C36_InitContextsResets ==
    [][initContexts =>
          /\ \A c \in ContextNames \cup {"instances"} : StackDepths'[c] = 0
          /\ runtime'.vmInput = EmptyInput
          /\ runtime'.codeAddress = ""
          /\ runtime'.codeHash = ""
          /\ runtime'.callFunction = ""
          /\ runtime'.readOnly = FALSE]_vars

\* The fields of the runtime frame that PushState saves are left as they are.
FrameFieldsKept ==
    /\ runtime'.vmInput = runtime.vmInput
    /\ runtime'.codeAddress = runtime.codeAddress
    /\ runtime'.codeHash = runtime.codeHash
    /\ runtime'.callFunction = runtime.callFunction
    /\ runtime'.readOnly = runtime.readOnly

\* C37, as stated: PopDiscard of the runtime drops the top saved frame and
\* restores nothing: the frame fields and the active instance are the same
\* after it as before.
C37_PopDiscardAsStated ==
    [][PopDiscard =>
          /\ stateStack'["runtime"] = Pop(stateStack["runtime"])
          /\ FrameFieldsKept
          /\ runtime'.instance = runtime.instance]_vars

\* C37, amended: PopDiscard drops the top saved frame and leaves the frame
\* fields as they are, but it pops the instance stack as well, and the popped
\* instance becomes the active one.
C37_PopDiscard ==
    [][PopDiscard =>
          /\ stateStack'["runtime"] = Pop(stateStack["runtime"])
          /\ FrameFieldsKept
          /\ instanceStack' = Pop(instanceStack)
          /\ runtime'.instance = IF instanceStack = <<>> THEN runtime.instance
                                 ELSE Top(instanceStack)]_vars

\* A nested frame, two frames deep, that differs from the saved one in the
\* frame fields and in the instance, about to be discarded.
C37_Witness ==
    /\ Len(stateStack["runtime"]) = 2
    /\ Len(instanceStack) = 2
    /\ instanceStack[1] # instanceStack[2]
    /\ runtime.instance # Top(instanceStack)
    /\ runtime.vmInput # Top(stateStack["runtime"]).vmInput
    /\ runtime.readOnly # Top(stateStack["runtime"]).readOnly
    /\ ENABLED PopDiscard

(***************************************************************************)
(* Properties of the creation of a contract's instance.                    *)
(***************************************************************************)
\* The last start compiled the bytecode and returned no error.
CompiledFromBytecode ==
    lastStart.called /\ lastStart.from = "bytecode" /\ lastStart.err = NoError

\* The last start ended on a failed verification.
VerificationFailed == lastStart.called /\ lastStart.err \in VerificationErrors

\* An instance whose verification fails is not left as the active instance.
FailedNeverActive ==
    [][VerificationFailed' /\ lastStart' # lastStart
           => codeInstance' = NoWasmInstance]_vars

\* The statement as written: every instance compiled from bytecode is
\* verified and its compiled code is saved to the hook.
C38_VerifiedAndSavedAsStated ==
    CompiledFromBytecode =>
        /\ lastStart.verified
        /\ lastStart.saved
        /\ Sha256(lastStart.contract) \in compiledCode

\* C38: an instance that StartWasmerInstance compiles from bytecode is
\* verified exactly when the code is new and the verification of the next
\* contract code was requested; then a contract without memory declaration,
\* with an illegal import or with a protected export makes the start fail,
\* leaves no active instance and saves nothing. The compiled code of an
\* instance that the start keeps is saved to the hook unless the instance
\* cannot produce it.
C38_VerifiedAndSaved ==
    [][lastStart' # lastStart =>
        /\ (CompiledFromBytecode' =>
               /\ lastStart'.verified
                    <=> (lastStart'.newCode /\ lastStart'.verifyCode)
               /\ lastStart'.verified => lastStart'.contract = "valid"
               /\ lastStart'.saved <=> lastStart'.cacheOk
               /\ lastStart'.saved
                    => Sha256(lastStart'.contract) \in compiledCode'
               /\ codeInstance'.contract = lastStart'.contract)
        /\ (VerificationFailed' =>
               /\ codeInstance' = NoWasmInstance
               /\ compiledCode' = compiledCode
               /\ lastStart'.contract # "valid"
               /\ lastStart'.newCode /\ lastStart'.verifyCode)]_vars

\* A new, invalid contract was refused after a valid one was compiled and
\* saved.
C38_Witness ==
    /\ VerificationFailed
    /\ codeInstance = NoWasmInstance
    /\ Sha256("valid") \in compiledCode

(***************************************************************************)
(* Properties of the reads under the reserved prefix.                      *)
(***************************************************************************)
\* The step is a read of a key with the reserved prefix.
ReservedRead ==
    /\ storageOps' = storageOps + 1
    /\ storageResult'.op = "GetStorage"
    /\ isElrondReservedKey(storageResult'.key)

\* The value the hook holds now for the key of the step's read.
HookValueOfRead == GetStorageData(storageResult'.address, storageResult'.key)

\* The entry of the account's map for the key of the step's read.
CachedOfRead == storageUpdates[storageResult'.address][storageResult'.key]

C40_AdminEventuallyReturns ==
    (admin.pc = "waitLock") ~> (admin.pc = "idle")

====
